---- MODULE Spec2Model ----
(***************************************************************************)
(* The trading-signal pipeline of openai_agents_sdk_trader_signals/main.py *)
(* (run_trading_signal_pipeline) as a state machine.  The agent runtime    *)
(* (Runner.run) and the file system are the environment: their answers are *)
(* drawn from small sets.  Floats are kept in hundredths (1.0 is 100).     *)
(***************************************************************************)
EXTENDS Integers, Sequences, FiniteSets, TLC

\* ------------------------------------------------------------------ bounds
\* Largest entity list the enrichment agent answers with.
MaxEnriched == 7
\* The same, when the pipeline is run twice against a deterministic stub.
MaxEnrichedRerun == 3
\* The length of the enrichment answer in the runs checked for termination.
MaxEnrichedFair == 6

\* ------------------------------------------------------- program constants
BATCH_SIZE == 2
MAX_CONCURRENT_BATCHES == 3
SelfStrength == 100

VARIABLES
    pc,                           \* position of run_trading_signal_pipeline
    company_name,                 \* the argument of the run
    enrichment_data,              \* EntityEnrichmentOutput (after the append)
    news_data,                    \* NewsAggregationOutput
    batch_tasks,                  \* the process_batch coroutines, by batch_num
    batch_status,                 \* batch_num -> "queued" | "running" | "done"
    batch_output,                 \* batch_num -> what runner.run answered
    i,                            \* index of the chunk loop (main.py:263)
    completion_order,             \* batches of the current chunk, as they end
    all_sentiment_entities_dict,  \* entity_name -> EntityWithSentiment
    completed_batches,            \* set of batch_num
    sentiment_data,               \* SentimentAnalysisOutput
    files,                        \* snapshot files written by this run
    abort_cause,                  \* what made the run raise, "" if nothing
    launch_order,                 \* history: batch_num in launch order
    history,                      \* history: the values pc has taken
    enrichment_output,            \* history: the enrichment agent's answer
    deterministic,                \* the agent runtime is a deterministic stub
    memo,                         \* answers the deterministic stub has given
    runs_left,                    \* further runs on the same company
    previous_output,              \* what the previous run returned
    previous_completion,          \* completion order of the previous run
    log,                          \* the diagnostics logged by this run
    tool_call_counter,            \* the process-wide tool call counter
    tool_invocations,             \* history: get_entity_news calls since reset
    tool_call,                    \* the last tool call and what it gave
    http_exchange,                \* the request the HTTP server is answering
    news_fetch,                   \* one call of _get_entity_news_async
    sse_stream                    \* one event stream of GET /sse

vars == <<pc, company_name, enrichment_data, news_data, batch_tasks,
          batch_status, batch_output, i, completion_order,
          all_sentiment_entities_dict, completed_batches, sentiment_data,
          files, abort_cause, launch_order, history, enrichment_output,
          deterministic, memo, runs_left, previous_output,
          previous_completion, log, tool_call_counter, tool_invocations,
          tool_call, http_exchange, news_fetch, sse_stream>>

\* The variables of one run, and those that outlive a run.
stub_vars == <<deterministic, memo, runs_left, previous_output,
               previous_completion>>

\* The state of the tools (tools.py, entity-news-mcp/utils.py) and of the
\* HTTP server that wraps them (entity-news-mcp/http_server.py).
tool_vars == <<tool_call_counter, tool_invocations, tool_call, http_exchange,
               news_fetch, sse_stream>>

\* ------------------------------------------------------------ data model
Companies == {"Apple"}

RelatedEntity(name, strength, type) ==
    [entity_name |-> name, relationship_strength |-> strength,
     relationship_type |-> type]

NewsArticle(name) ==
    [url |-> name, published_date |-> "2024-11-07", source |-> "Reuters",
     title |-> name]

EntityWithNews(e, news) ==
    [entity_name |-> e.entity_name,
     relationship_strength |-> e.relationship_strength,
     relationship_type |-> e.relationship_type, news |-> news]

SentimentToken ==
    [token_text |-> "signal", impact |-> "positive", direction |-> "bullish",
     strength |-> 75]

EntityWithSentiment(e, news) ==
    [entity_name |-> e.entity_name,
     relationship_strength |-> e.relationship_strength,
     relationship_type |-> e.relationship_type, news |-> news,
     sentiment_tokens |-> <<SentimentToken>>]

Envelope(company, entities) == [company_name |-> company, entities |-> entities]

\* A stage output that is not yet bound.
NoData == [company_name |-> "", entities |-> <<>>]

Names(entities) == {entities[k].entity_name : k \in 1..Len(entities)}

NameSeq(entities) == [k \in 1..Len(entities) |-> entities[k].entity_name]

Min(a, b) == IF a < b THEN a ELSE b

\* -------------------------------------------------- the agent runtime
\* Entities the enrichment agent may discover, in the order it lists them.
PoolNames ==
    <<"TSMC", "Samsung", "Foxconn", "Qualcomm", "Google", "Microsoft",
      "Nvidia", "Intel", "Sony", "Dell">>

PoolEntity(k) ==
    RelatedEntity(PoolNames[k], 100 - 5 * k,
                  IF k % 2 = 1 THEN "supplier" ELSE "competitor")

PoolPrefix(n) == [k \in 1..n |-> PoolEntity(k)]

\* Answers of runner.run(entity_enrichment_agent): a validated
\* EntityEnrichmentOutput (entities has min_length 1) of at most max
\* entities, with or without an entity named as the company itself.
EnrichmentOutputs(company, max) ==
    {Envelope(company, PoolPrefix(n)) : n \in 1..max}
    \cup
    {Envelope(company,
              <<RelatedEntity(company, 90, "partner")>> \o PoolPrefix(n - 1)) :
        n \in 1..max}

NewsPatterns == {"none", "all", "first"}

NewsFor(pattern, k, name) ==
    IF pattern = "all" \/ (pattern = "first" /\ k = 1)
    THEN <<NewsArticle(name)>>
    ELSE <<>>

DropAt(s, k) == SubSeq(s, 1, k - 1) \o SubSeq(s, k + 1, Len(s))

\* Entity lists the aggregation agent may keep of its input: any prefix, or
\* the input without its second entity.
Selections(entities) ==
    {SubSeq(entities, 1, k) : k \in 0..Len(entities)}
    \cup
    (IF Len(entities) >= 2 THEN {DropAt(entities, 2)} ELSE {})

\* Answers of runner.run(news_aggregation_agent): a validated
\* NewsAggregationOutput.
AggregationOutputs(input) ==
    {Envelope(input.company_name,
              [k \in 1..Len(sel) |->
                  EntityWithNews(sel[k], NewsFor(p, k, sel[k].entity_name))]) :
        sel \in Selections(input.entities), p \in NewsPatterns}

\* What one runner.run(sentiment_analysis_agent) call did.
Pending == [outcome |-> "pending", entities |-> <<>>]

Raised == [outcome |-> "raised", entities |-> <<>>]

Returned(entities) == [outcome |-> "returned", entities |-> entities]

\* Answers of runner.run(sentiment_analysis_agent) to one batch input: the
\* batch's entities with their articles, the batch's entities without
\* articles, or one record under the company's name.
SentimentOutputs(batch_input) ==
    {Returned([k \in 1..Len(batch_input.entities) |->
                  EntityWithSentiment(batch_input.entities[k],
                                      batch_input.entities[k].news)]),
     Returned([k \in 1..Len(batch_input.entities) |->
                  EntityWithSentiment(batch_input.entities[k], <<>>)]),
     Returned(<<EntityWithSentiment(
                    RelatedEntity(batch_input.company_name, 50, "unknown"),
                    <<>>)>>)}

\* A deterministic stub answers an input it has seen as it did before.
Answers(seen, input, answers) ==
    IF deterministic /\ input \in DOMAIN seen THEN {seen[input]} ELSE answers

Remember(seen, input, answer) ==
    IF deterministic
    THEN [k \in DOMAIN seen \cup {input} |->
             IF k = input THEN answer ELSE seen[k]]
    ELSE seen

\* ------------------------------------------------------------- the code
\* Variant of AppendSelf: the self entity is put first (insert(0, ...)).
AppendSelfFirst(entities, company) ==
    <<RelatedEntity(company, SelfStrength, "self")>> \o entities

\* main.py:96, enrichment_data.entities.append(RelatedEntity(...)).
AppendSelf(entities, company) ==
    Append(entities, RelatedEntity(company, SelfStrength, "self"))

\* main.py:207.
TotalBatches(total_entities) == (total_entities + BATCH_SIZE - 1) \div BATCH_SIZE

\* Variant of BatchStarts: range(0, total_entities - 1, BATCH_SIZE).
BatchStartsShort(total_entities) ==
    [k \in 1..Cardinality({s \in 0..(total_entities - 2) : s % BATCH_SIZE = 0})
        |-> (k - 1) * BATCH_SIZE]

\* main.py:249, range(0, total_entities, BATCH_SIZE) in increasing order.
BatchStarts(total_entities) ==
    [k \in 1..Cardinality({s \in 0..(total_entities - 1) : s % BATCH_SIZE = 0})
        |-> (k - 1) * BATCH_SIZE]

\* main.py:250.
BatchEnd(batch_start, total_entities) ==
    Min(batch_start + BATCH_SIZE, total_entities)

\* main.py:248-256, the process_batch coroutines in the order they are made.
BatchTasks(entities) ==
    [k \in 1..Len(BatchStarts(Len(entities))) |->
        LET batch_start == BatchStarts(Len(entities))[k]
            batch_end == BatchEnd(batch_start, Len(entities))
        IN [batch_num |-> (batch_start \div BATCH_SIZE) + 1,
            batch_entities |-> SubSeq(entities, batch_start + 1, batch_end),
            batch_start |-> batch_start,
            batch_end |-> batch_end]]

\* Variant of Chunk: every remaining coroutine is gathered at once
\* (batch_tasks[i:]).
ChunkAll(start, n) == [k \in 1..(n - start) |-> start + k]

\* main.py:264, batch_tasks[i:i + MAX_CONCURRENT_BATCHES] as positions.
Chunk(start, n) ==
    [k \in 1..(Min(start + MAX_CONCURRENT_BATCHES, n) - start) |-> start + k]

ChunkSet(start, n) == {Chunk(start, n)[k] : k \in 1..Len(Chunk(start, n))}

\* Variant of ChunkFinished: the await ends with the first awaitable to end
\* (asyncio.wait(..., return_when=FIRST_COMPLETED)).
ChunkFinishedFirst(start, n, status) ==
    \E b \in ChunkSet(start, n) : status[b] = "done"

\* main.py:268, the await of gather ends when every awaitable of the chunk
\* has ended.
ChunkFinished(start, n, status) ==
    \A b \in ChunkSet(start, n) : status[b] = "done"

\* main.py:230-235: article.sentiment_tokens is read for every article of
\* every returned entity; NewsArticle (schemas.py:34-39) has no such field.
ReadsMissingAttribute(entities) ==
    \E k \in 1..Len(entities) :
        \E a \in 1..Len(entities[k].news) :
            "sentiment_tokens" \notin DOMAIN entities[k].news[a]

\* main.py:220-245, what process_batch returns: (entities, batch_num) or
\* (None, batch_num).
ProcessBatch(output) ==
    IF output.outcome # "returned" \/ ReadsMissingAttribute(output.entities)
    THEN [is_none |-> TRUE, entities |-> <<>>]
    ELSE [is_none |-> FALSE, entities |-> output.entities]

\* Variant of GatherResults: the results in the order of completion
\* (asyncio.as_completed).
GatherResultsAsCompleted(chunk, outputs, completed_in_order) ==
    [k \in 1..Len(completed_in_order) |->
        [result |-> ProcessBatch(outputs[completed_in_order[k]]),
         batch_num |-> completed_in_order[k]]]

\* main.py:268, asyncio.gather: the results in the order of the awaitables.
GatherResults(chunk, outputs, completed_in_order) ==
    [k \in 1..Len(chunk) |->
        [result |-> ProcessBatch(outputs[chunk[k]]), batch_num |-> chunk[k]]]

\* Variant of StoreEntities: a name the map already holds is left as it is
\* (dict.setdefault).
RECURSIVE StoreEntitiesKeepFirst(_, _)
StoreEntitiesKeepFirst(dict, entities) ==
    IF entities = <<>> THEN dict
    ELSE LET e == Head(entities)
         IN StoreEntitiesKeepFirst(
                [n \in DOMAIN dict \cup {e.entity_name} |->
                    IF n \in DOMAIN dict THEN dict[n] ELSE e],
                Tail(entities))

\* main.py:278-279.
RECURSIVE StoreEntities(_, _)
StoreEntities(dict, entities) ==
    IF entities = <<>> THEN dict
    ELSE LET e == Head(entities)
         IN StoreEntities(
                [n \in DOMAIN dict \cup {e.entity_name} |->
                    IF n = e.entity_name THEN e ELSE dict[n]],
                Tail(entities))

\* Variant of StoreResults: of what a batch returned, only the records under
\* a name of the batch's own input are stored.
RECURSIVE StoreResultsOwnNames(_, _)
StoreResultsOwnNames(dict, results) ==
    IF results = <<>> THEN dict
    ELSE StoreResultsOwnNames(
             IF Head(results).result.is_none THEN dict
             ELSE LET Own(e) ==
                          e.entity_name \in
                              Names(batch_tasks[Head(results).batch_num]
                                        .batch_entities)
                  IN StoreEntities(
                         dict, SelectSeq(Head(results).result.entities, Own)),
             Tail(results))

\* main.py:270-280.
RECURSIVE StoreResults(_, _)
StoreResults(dict, results) ==
    IF results = <<>> THEN dict
    ELSE StoreResults(
             IF Head(results).result.is_none THEN dict
             ELSE StoreEntities(dict, Head(results).result.entities),
             Tail(results))

\* main.py:276-280.
CompletedIn(results) ==
    {results[k].batch_num : k \in {j \in 1..Len(results) :
                                       ~results[j].result.is_none}}

\* Variant of OrderedEntities: an entity no batch returned is put back
\* without articles or tokens.
RECURSIVE OrderedEntitiesReinsert(_, _)
OrderedEntitiesReinsert(entities, dict) ==
    IF entities = <<>> THEN <<>>
    ELSE (IF Head(entities).entity_name \in DOMAIN dict
          THEN <<dict[Head(entities).entity_name]>>
          ELSE <<[entity_name |-> Head(entities).entity_name,
                  relationship_strength |->
                      Head(entities).relationship_strength,
                  relationship_type |-> Head(entities).relationship_type,
                  news |-> <<>>, sentiment_tokens |-> <<>>]>>)
         \o OrderedEntitiesReinsert(Tail(entities), dict)

\* main.py:283-286.
RECURSIVE OrderedEntities(_, _)
OrderedEntities(entities, dict) ==
    IF entities = <<>> THEN <<>>
    ELSE (IF Head(entities).entity_name \in DOMAIN dict
          THEN <<dict[Head(entities).entity_name]>>
          ELSE <<>>) \o OrderedEntities(Tail(entities), dict)

\* ------------------------------------------------------- the diagnostics
\* One logged diagnostic: what it is about, the entity names it gives as a
\* set, and what it lists.
LogRecord(event, names, items) ==
    [event |-> event, names |-> names, items |-> items]

\* Variant of MissingEntities: the difference is taken the other way round.
MissingEntitiesReversed(step1_entities, step2_entities) ==
    step2_entities \ step1_entities

\* main.py:161-163, missing_entities = step1_entities - step2_entities.
MissingEntities(step1_entities, step2_entities) ==
    step1_entities \ step2_entities

\* main.py:179.
EntitiesWithNoNews(entities) ==
    LET NoNews(e) == Len(e.news) = 0
    IN NameSeq(SelectSeq(entities, NoNews))

\* main.py:153-187, what the run logs once the aggregation output is bound:
\* a failed step-2 write, the entities missing in step 2, a tool call count
\* below one call per entity, the entities without news.
AggregationDiagnostics(step1, step2, write_ok, tool_calls) ==
    (IF write_ok THEN <<>>
     ELSE <<LogRecord("step2_save_failed", {}, <<>>)>>)
    \o (IF MissingEntities(Names(step1), Names(step2)) # {}
        THEN <<LogRecord("missing_step2",
                         MissingEntities(Names(step1), Names(step2)), <<>>)>>
        ELSE <<>>)
    \o (IF tool_calls < Len(step1)
        THEN <<LogRecord("tool_call_shortfall", {}, <<tool_calls, Len(step1)>>)>>
        ELSE <<>>)
    \o (IF EntitiesWithNoNews(step2) # <<>>
        THEN <<LogRecord("no_news", {}, EntitiesWithNoNews(step2))>>
        ELSE <<>>)

\* main.py:297-311, the entity counts of step 2 and step 3 are compared.
EntityValidation(input_entities, output_entities) ==
    IF Len(input_entities) # Len(output_entities)
    THEN <<LogRecord("step3_missing_entities",
                     Names(input_entities) \ Names(output_entities), <<>>)>>
    ELSE <<LogRecord("all_entities_processed", {}, <<>>)>>

\* main.py:319, next((e for e in entities if e.entity_name == name), None)
\* as a position, 0 for None.
FirstNamed(entities, name) ==
    IF name \in Names(entities)
    THEN CHOOSE k \in 1..Len(entities) :
             /\ entities[k].entity_name = name
             /\ \A j \in 1..(k - 1) : entities[j].entity_name # name
    ELSE 0

RECURSIVE SumArticles(_)
SumArticles(entities) ==
    IF entities = <<>> THEN 0
    ELSE Len(Head(entities).news) + SumArticles(Tail(entities))

\* main.py:321, total_input_articles when the loop ends.
TotalInputArticles(input_entities) == SumArticles(input_entities)

\* main.py:325, total_output_articles when the loop ends: the articles of
\* the output entity found for each input entity.
RECURSIVE TotalOutputArticles(_, _)
TotalOutputArticles(input_entities, output_entities) ==
    IF input_entities = <<>> THEN 0
    ELSE LET found == FirstNamed(output_entities,
                                 Head(input_entities).entity_name)
         IN (IF found = 0 THEN 0 ELSE Len(output_entities[found].news))
            + TotalOutputArticles(Tail(input_entities), output_entities)

\* One entry of missing_articles (main.py:329, 332): "<name>: <n> missing"
\* or "<name>: ALL articles missing".
MissingArticlesEntry(name, all_missing, missing_count) ==
    [entity_name |-> name, all_missing |-> all_missing,
     missing_count |-> missing_count]

\* Variant of MissingArticles: an input entity without an output entity is
\* passed over.
RECURSIVE MissingArticlesSkipsAbsent(_, _)
MissingArticlesSkipsAbsent(input_entities, output_entities) ==
    IF input_entities = <<>> THEN <<>>
    ELSE LET input_entity == Head(input_entities)
             found == FirstNamed(output_entities, input_entity.entity_name)
         IN (IF found # 0
                /\ Len(input_entity.news) # Len(output_entities[found].news)
             THEN <<MissingArticlesEntry(
                        input_entity.entity_name, FALSE,
                        Len(input_entity.news)
                            - Len(output_entities[found].news))>>
             ELSE <<>>)
            \o MissingArticlesSkipsAbsent(Tail(input_entities),
                                          output_entities)

\* main.py:316-332, missing_articles when the loop ends.
RECURSIVE MissingArticles(_, _)
MissingArticles(input_entities, output_entities) ==
    IF input_entities = <<>> THEN <<>>
    ELSE LET input_entity == Head(input_entities)
             found == FirstNamed(output_entities, input_entity.entity_name)
         IN (IF found # 0
             THEN IF Len(input_entity.news) # Len(output_entities[found].news)
                  THEN <<MissingArticlesEntry(
                             input_entity.entity_name, FALSE,
                             Len(input_entity.news)
                                 - Len(output_entities[found].news))>>
                  ELSE <<>>
             ELSE <<MissingArticlesEntry(input_entity.entity_name, TRUE, 0)>>)
            \o MissingArticles(Tail(input_entities), output_entities)

\* main.py:328 and 331, the line logged for each entry of missing_articles.
EntryLogged(entry) ==
    LogRecord(IF entry.all_missing THEN "entity_missing_from_step3"
              ELSE "entity_articles_differ",
              {entry.entity_name}, <<entry>>)

\* main.py:340, the entries of missing_articles that are printed.
MissingArticlesShown == 5

\* main.py:313-344, the article counts of step 2 and step 3 are compared.
ArticleValidation(input_entities, output_entities) ==
    LET missing_articles == MissingArticles(input_entities, output_entities)
    IN [k \in 1..Len(missing_articles) |-> EntryLogged(missing_articles[k])]
       \o (IF TotalInputArticles(input_entities)
                 # TotalOutputArticles(input_entities, output_entities)
           THEN <<LogRecord("articles_mismatch", {},
                            SubSeq(missing_articles, 1,
                                   Min(MissingArticlesShown,
                                       Len(missing_articles))))>>
           ELSE <<LogRecord("all_articles_processed", {}, <<>>)>>)

\* main.py:360-364 and 406-409, what is logged after the step-3 snapshot.
SummaryDiagnostics(step1, step2, step3) ==
    (IF Names(step2) \ Names(step3) # {}
     THEN <<LogRecord("missing_step3", Names(step2) \ Names(step3), <<>>)>>
     ELSE <<>>)
    \o (IF Len(step1) # Len(step2)
        THEN <<LogRecord("count_mismatch_step1_step2", {},
                         <<Len(step1), Len(step2)>>)>>
        ELSE <<>>)
    \o (IF Len(step2) # Len(step3)
        THEN <<LogRecord("count_mismatch_step2_step3", {},
                         <<Len(step2), Len(step3)>>)>>
        ELSE <<>>)

\* ----------------------------------------------------- the tool call counter
NoToolCall == [tool |-> "", argument |-> "", provider |-> <<>>, result |-> <<>>]

\* reset_tool_call_counter(), called at main.py:65: the counter is zero.
ResetToolCallCounter == 0

\* get_tool_call_count("get_entity_news"), called at main.py:168.
GetToolCallCount(counter) == counter

\* --------------------------------------------------------------- the tools
\* Values as response.json() decodes them: a dict, a list, a string, null.
JNull == [t |-> "null", v |-> <<>>]

JStr(text) == [t |-> "str", v |-> text]

JList(items) == [t |-> "list", v |-> items]

JDict(fields) == [t |-> "dict", v |-> fields]

EmptyDict == [k \in {} |-> JNull]

\* A response body that is no JSON text.
NotJson == [t |-> "not_json", v |-> <<>>]

\* What a Python expression gives: a value, or the exception it raises.
Ok(value) == [exc |-> "", value |-> value]

Raise(exc) == [exc |-> exc, value |-> JNull]

\* The first exception raised by a sequence of evaluations, if any.
RECURSIVE FirstRaised(_)
FirstRaised(evaluations) ==
    IF evaluations = <<>> THEN ""
    ELSE IF Head(evaluations).exc # "" THEN Head(evaluations).exc
    ELSE FirstRaised(Tail(evaluations))

\* d.get(key, default).
DictGet(d, key, default) ==
    IF d.t # "dict" THEN Raise("AttributeError")
    ELSE Ok(IF key \in DOMAIN d.v THEN d.v[key] ELSE default)

\* d[key] with a string key.
GetItem(d, key) ==
    IF d.t # "dict" THEN Raise("TypeError")
    ELSE IF key \in DOMAIN d.v THEN Ok(d.v[key])
    ELSE Raise("KeyError")

\* json.dumps(value): a string holding the JSON text of value.
Dumps(value) == [t |-> "json_text", v |-> value]

\* The exceptions of requests that derive from RequestException (the JSON
\* decoding error of response.json() is one since requests 2.27).
RequestExceptions ==
    {"ConnectionError", "Timeout", "HTTPError", "JSONDecodeError"}

\* What requests.get gives: an exception, or a response with a status code
\* and a body.
TransportError(exc) == [exc |-> exc, status_code |-> 0, body |-> NotJson]

Response(status_code, body) ==
    [exc |-> "", status_code |-> status_code, body |-> body]

StatusCodes == {200, 403, 429, 500}

CompleteArticle ==
    JDict([title |-> JStr("title"), url |-> JStr("url"),
           source |-> JDict([name |-> JStr("Reuters")]),
           description |-> JStr("description"),
           publishedAt |-> JStr("2024-11-07")])

NullSourceArticle ==
    JDict([title |-> JStr("title"), url |-> JStr("url"), source |-> JNull,
           description |-> JStr("description"),
           publishedAt |-> JStr("2024-11-07")])

Without(article, key) ==
    JDict([k \in DOMAIN article.v \ {key} |-> article.v[k]])

ArticleKeys == {"title", "url", "source", "description", "publishedAt"}

ArticleShapes ==
    {CompleteArticle, NullSourceArticle}
    \cup {Without(CompleteArticle, key) : key \in ArticleKeys}

ArticleLists ==
    {<<>>} \cup {<<a>> : a \in ArticleShapes}
    \cup {<<CompleteArticle, a>> : a \in ArticleShapes}

\* The bodies a news provider answers with: no JSON, JSON that is no dict,
\* a dict without status or articles, an error status, articles that are
\* null, and article lists with and without a status field.
NewsBodies ==
    {NotJson, JNull, JList(<<>>), JDict(EmptyDict),
     JDict([status |-> JStr("error"), message |-> JStr("rate limited")]),
     JDict([status |-> JStr("ok")]),
     JDict([articles |-> JNull]),
     JDict([status |-> JStr("ok"), articles |-> JNull])}
    \cup {JDict([articles |-> JList(l)]) : l \in ArticleLists}
    \cup {JDict([status |-> JStr("ok"), articles |-> JList(l)]) :
             l \in ArticleLists}

NewsProviderOutcomes ==
    {TransportError(exc) : exc \in {"ConnectionError", "Timeout"}}
    \cup {Response(code, body) : code \in StatusCodes, body \in NewsBodies}

\* tools.py:39-42, utils.py:31-33 and 80-82: requests.get,
\* response.raise_for_status(), response.json().
RequestJson(provider) ==
    IF provider.exc # "" THEN Raise(provider.exc)
    ELSE IF provider.status_code >= 400 THEN Raise("HTTPError")
    ELSE IF provider.body.t = "not_json" THEN Raise("JSONDecodeError")
    ELSE Ok(provider.body)

\* tools.py:50-56, one formatted article.
FormatArticle(article) ==
    LET source == DictGet(article, "source", JDict(EmptyDict))
    IN IF source.exc # "" THEN source
       ELSE IF DictGet(source.value, "name", JNull).exc # ""
       THEN DictGet(source.value, "name", JNull)
       ELSE Ok(JDict(
                [url |-> DictGet(article, "url", JNull).value,
                 published_date |-> DictGet(article, "publishedAt", JNull).value,
                 source |-> DictGet(source.value, "name", JNull).value,
                 title |-> DictGet(article, "title", JNull).value,
                 description |->
                     DictGet(article, "description", JNull).value]))

\* tools.py:44-60, the body of the try once the response is decoded (of the
\* values of 'articles' only a list and null are drawn).
FormatArticles(data) ==
    LET articles == DictGet(data, "articles", JList(<<>>))
    IN IF articles.exc # "" THEN articles
       ELSE IF articles.value.t # "list" THEN Raise("TypeError")
       ELSE LET formatted ==
                    [k \in 1..Len(articles.value.v) |->
                        FormatArticle(articles.value.v[k])]
            IN IF FirstRaised(formatted) # ""
               THEN Raise(FirstRaised(formatted))
               ELSE Ok(Dumps(JList([k \in 1..Len(formatted) |->
                                       formatted[k].value])))

\* Variant of ExceptException: except requests.exceptions.RequestException.
ExceptOnlyRequestException(exc) == exc \in RequestExceptions

\* tools.py:62, except Exception.
ExceptException(exc) == exc # ""

\* tools.py:12-65, get_entity_news: the JSON text it returns, or the
\* exception it raises.
GetEntityNews(entity_name, provider) ==
    LET data == RequestJson(provider)
        tried == IF data.exc # "" THEN data ELSE FormatArticles(data.value)
    IN IF tried.exc # "" /\ ExceptException(tried.exc)
       THEN Ok(Dumps(JList(<<>>)))
       ELSE tried

\* Variant of ExceptRequestException: except requests.exceptions.ConnectionError.
ExceptConnectionError(exc) == exc = "ConnectionError"

\* tools.py:126 and utils.py:52, except requests.exceptions.RequestException.
ExceptRequestException(exc) == exc \in RequestExceptions

\* utils.py:41-48, one article of the result: the subscripts are evaluated
\* in the order written.
ApiArticle(article) ==
    LET source == GetItem(article, "source")
        lookups == <<GetItem(article, "title"), GetItem(article, "url"),
                     source,
                     IF source.exc # "" THEN source
                     ELSE GetItem(source.value, "name"),
                     GetItem(article, "description"),
                     GetItem(article, "publishedAt")>>
    IN IF FirstRaised(lookups) # "" THEN Raise(FirstRaised(lookups))
       ELSE Ok(JDict([title |-> lookups[1].value, url |-> lookups[2].value,
                      source |-> lookups[4].value,
                      description |-> lookups[5].value,
                      published_at |-> lookups[6].value,
                      image |-> DictGet(article, "urlToImage", JNull).value]))

\* utils.py:35-50, the body of the try once the response is decoded.
ApiArticles(data) ==
    LET status == GetItem(data, "status")
        articles == GetItem(data, "articles")
    IN IF status.exc # "" THEN status
       ELSE IF ~(status.value.t = "str" /\ status.value.v = "ok")
       THEN Ok(JList(<<>>))
       ELSE IF articles.exc # "" THEN articles
       ELSE IF articles.value.t # "list" THEN Raise("TypeError")
       ELSE LET made == [k \in 1..Len(articles.value.v) |->
                            ApiArticle(articles.value.v[k])]
            IN IF FirstRaised(made) # "" THEN Raise(FirstRaised(made))
               ELSE Ok(JList([k \in 1..Len(made) |-> made[k].value]))

\* utils.py:4-54, get_entity_news_from_api: the list it returns, or the
\* exception it raises.
GetEntityNewsFromApi(entity_name, provider) ==
    LET data == RequestJson(provider)
        tried == IF data.exc # "" THEN data ELSE ApiArticles(data.value)
    IN IF tried.exc # "" /\ ExceptRequestException(tried.exc)
       THEN Ok(JList(<<>>))
       ELSE tried

\* utils.py:87, traceback.format_exc(limit=None, chain=True) as it is called
\* there, with the exception as limit: the limit is compared with 0, which
\* raises for anything that is no number.
FormatExc(limit) ==
    IF limit.t \in {"none", "int"} THEN Ok(JStr("Traceback"))
    ELSE Raise("TypeError")

\* utils.py:58-89, get_entity_news_from_gnews: the value it returns, or the
\* exception it raises (the handler of line 86 catches every Exception and
\* calls format_exc(e) first).
GetEntityNewsFromGnews(entity_name, provider) ==
    LET data == RequestJson(provider)
        tried == IF data.exc # "" THEN data
                 ELSE DictGet(data.value, "articles", JList(<<>>))
        printed == FormatExc([t |-> "exception", v |-> tried.exc])
    IN IF tried.exc = "" THEN tried
       ELSE IF printed.exc # "" THEN Raise(printed.exc)
       ELSE Ok(JList(<<>>))

\* tools.py:119, the characters of the article text that are kept.
MaxContentChars == 2000

\* The pages a site answers with: with or without a title, with or without
\* an article container, with a text below, at and above the limit.
Page(has_title, has_container, text_chars) ==
    [t |-> "html", has_title |-> has_title, has_container |-> has_container,
     text_chars |-> text_chars]

Pages ==
    {Page(has_title, has_container, text_chars) :
        has_title \in BOOLEAN, has_container \in BOOLEAN,
        text_chars \in {0, MaxContentChars, MaxContentChars + 1}}

PageProviderOutcomes ==
    {TransportError(exc) : exc \in {"ConnectionError", "Timeout"}}
    \cup {Response(code, page) : code \in StatusCodes, page \in Pages}

\* A Python string, as what it starts with and what follows.
Text(prefix, rest) == [t |-> "text", prefix |-> prefix, rest |-> rest]

\* tools.py:85-128, fetch_article_content: the string it returns, or the
\* exception it raises.
FetchArticleContent(url, provider) ==
    LET tried ==
            IF provider.exc # "" THEN Raise(provider.exc)
            ELSE IF provider.status_code >= 400 THEN Raise("HTTPError")
            ELSE Ok(Text("Title: ",
                         [title |-> IF provider.body.has_title THEN "title"
                                    ELSE "No title found",
                          text_chars |-> Min(provider.body.text_chars,
                                             MaxContentChars),
                          ellipsis |-> provider.body.text_chars
                                           > MaxContentChars]))
    IN IF tried.exc # "" /\ ExceptRequestException(tried.exc)
       THEN Ok(Text("Error fetching article: ", tried.exc))
       ELSE tried

ToolEntityNames == {"Apple", "TSMC"}

ToolUrls == {"https://example.com/a", "https://example.com/b"}

\* ------------------------------------------------------- the HTTP server
\* A key that a JSON object does not have.
Absent == [t |-> "absent", v |-> <<>>]

JInt(n) == [t |-> "int", v |-> n]

\* The JSON object that has the fields given, those that are Absent left out.
JObject(fields) ==
    JDict([k \in {f \in DOMAIN fields : fields[f].t # "absent"} |-> fields[k]])

\* What client.get of httpx gives: an exception, or a response with a status
\* code and a body; late when the fetch has not ended as the bound on both
\* fetches (60 s) passes.
HttpxOutcome(exc, status_code, body, late) ==
    [exc |-> exc, status_code |-> status_code, body |-> body, late |-> late]

StringSourceArticle ==
    JDict([title |-> JStr("title"), url |-> JStr("url"),
           source |-> JStr("Reuters"), description |-> JStr("description"),
           publishedAt |-> JStr("2024-11-07")])

ServerArticleLists ==
    {<<>>, <<CompleteArticle>>, <<CompleteArticle, NullSourceArticle>>,
     <<Without(CompleteArticle, "source")>>, <<StringSourceArticle>>}

ServerBodies ==
    {NotJson, JList(<<>>),
     JDict([status |-> JStr("error"), message |-> JStr("rate limited")]),
     JDict([status |-> JStr("ok")]),
     JDict([status |-> JStr("ok"), articles |-> JNull]),
     JDict([articles |-> JList(<<CompleteArticle>>)])}
    \cup {JDict([status |-> JStr("ok"), articles |-> JList(l)]) :
             l \in ServerArticleLists}

\* What a news provider does with one request of the server.
ServerProviderOutcomes ==
    {HttpxOutcome(exc, 0, NotJson, FALSE) :
        exc \in {"ConnectError", "ReadTimeout"}}
    \cup {HttpxOutcome("", code, body, FALSE) :
             code \in {200, 500}, body \in ServerBodies}
    \cup {HttpxOutcome("", 200,
                        JDict([status |-> JStr("ok"),
                               articles |-> JList(<<CompleteArticle>>)]),
                        TRUE)}

\* A provider that is not asked.
Unasked == HttpxOutcome("", 0, NotJson, FALSE)

\* http_server.py:100-103 and 143-146: client.get,
\* response.raise_for_status(), response.json().
HttpxJson(provider) ==
    IF provider.exc # "" THEN Raise(provider.exc)
    ELSE IF provider.status_code >= 400 THEN Raise("HTTPStatusError")
    ELSE IF provider.body.t = "not_json" THEN Raise("JSONDecodeError")
    ELSE Ok(provider.body)

\* http_server.py:111-118, one article of fetch_newsapi.
NewsapiArticle(article) ==
    LET source == DictGet(article, "source", JDict(EmptyDict))
        name == IF source.exc # "" THEN source
                ELSE DictGet(source.value, "name", JStr(""))
    IN IF name.exc # "" THEN name
       ELSE Ok(JDict(
                [title |-> DictGet(article, "title", JStr("")).value,
                 url |-> DictGet(article, "url", JStr("")).value,
                 source |-> name.value,
                 description |-> DictGet(article, "description", JNull).value,
                 published_at |-> DictGet(article, "publishedAt", JNull).value,
                 image |-> DictGet(article, "urlToImage", JNull).value]))

\* http_server.py:151-158, one article of fetch_gnews: the name of a source
\* that is a dict, a source that is none as it is.
GnewsArticle(article) ==
    LET source == DictGet(article, "source", JNull)
        name == IF source.exc # "" THEN source
                ELSE IF source.value.t = "dict"
                THEN DictGet(source.value, "name", JStr(""))
                ELSE DictGet(article, "source", JStr(""))
    IN IF name.exc # "" THEN name
       ELSE Ok(JDict(
                [title |-> DictGet(article, "title", JStr("")).value,
                 url |-> DictGet(article, "url", JStr("")).value,
                 source |-> name.value,
                 description |-> DictGet(article, "description", JNull).value,
                 published_at |-> DictGet(article, "publishedAt", JNull).value,
                 image |-> DictGet(article, "image", JNull).value]))

\* http_server.py:109-121 and 149-161, the list of the articles made, or
\* the first exception raised making one.
ArticlesMade(made) ==
    IF FirstRaised(made) # "" THEN Raise(FirstRaised(made))
    ELSE Ok(JList([k \in 1..Len(made) |-> made[k].value]))

\* http_server.py:122-129 and 162-169, except asyncio.TimeoutError and
\* except Exception: the fetch returns the empty list.
ExceptReturnsEmpty(tried) ==
    IF tried.exc # "" /\ ExceptException(tried.exc) THEN Ok(JList(<<>>))
    ELSE tried

\* http_server.py:86-129, fetch_newsapi: the list it returns, or the
\* exception it raises.
FetchNewsapi(entity_name, provider) ==
    LET data == HttpxJson(provider)
        status == DictGet(data.value, "status", JNull)
        articles == DictGet(data.value, "articles", JList(<<>>))
    IN ExceptReturnsEmpty(
           IF data.exc # "" THEN data
           ELSE IF status.exc # "" THEN status
           ELSE IF status.value # JStr("ok") THEN Ok(JList(<<>>))
           ELSE IF articles.value.t # "list" THEN Raise("TypeError")
           ELSE ArticlesMade([k \in 1..Len(articles.value.v) |->
                                 NewsapiArticle(articles.value.v[k])]))

\* http_server.py:131-169, fetch_gnews: the list it returns, or the
\* exception it raises.
FetchGnews(entity_name, provider) ==
    LET data == HttpxJson(provider)
        articles == DictGet(data.value, "articles", JList(<<>>))
    IN ExceptReturnsEmpty(
           IF data.exc # "" THEN data
           ELSE IF articles.exc # "" THEN articles
           ELSE IF articles.value.t # "list" THEN Raise("TypeError")
           ELSE ArticlesMade([k \in 1..Len(articles.value.v) |->
                                 GnewsArticle(articles.value.v[k])]))

\* http_server.py:186-192, a result of gather that is an exception counts
\* as the empty list.
ListOrEmpty(result) == IF result.exc # "" THEN <<>> ELSE result.value.v

\* http_server.py:81-201, _get_entity_news_async: both fetches are awaited
\* together for at most 60 s; when that passes the result is the empty list.
GetEntityNewsAsync(entity_name, newsapi, gnews) ==
    IF newsapi.late \/ gnews.late THEN Ok(JList(<<>>))
    ELSE Ok(JList(ListOrEmpty(FetchNewsapi(entity_name, newsapi))
                  \o ListOrEmpty(FetchGnews(entity_name, gnews))))

\* http_server.py:261-265.
ToolResponse(success, data, error) ==
    [success |-> success, data |-> data, error |-> error]

\* Variant of ToolResponseOf: a fetch that gives no article is answered as
\* a failure.
ToolResponseFailsOnEmpty(result) ==
    IF result.exc # "" \/ result.value.v = <<>>
    THEN Ok(ToolResponse(FALSE, <<>>, JStr("no articles")))
    ELSE Ok(ToolResponse(TRUE, result.value.v, JNull))

\* http_server.py:362-372, the ToolResponse for what the fetch gave.
ToolResponseOf(result) ==
    IF result.exc # "" /\ ExceptException(result.exc)
    THEN Ok(ToolResponse(FALSE, <<>>, JStr(result.exc)))
    ELSE Ok(ToolResponse(TRUE, result.value.v, JNull))

\* http_server.py:353-372, get_entity_news_tool: the body it answers with.
GetEntityNewsTool(request, newsapi, gnews) ==
    ToolResponseOf(GetEntityNewsAsync(request.v.entity_name, newsapi, gnews))

\* Variant of Falsy: only null counts as no value.
FalsyNoneOnly(value) == value.t = "null"

\* not value, for a JSON value.
Falsy(value) ==
    \/ value.t = "null"
    \/ value.t = "str" /\ value.v = ""
    \/ value.t = "int" /\ value.v = 0
    \/ value.t = "list" /\ value.v = <<>>
    \/ value.t = "dict" /\ DOMAIN value.v = {}

\* An f-string: the text made of the parts in this order.
FString(parts) == [t |-> "fstr", v |-> parts]

\* http_server.py:204-223, _get_mcp_tool_list.
McpToolList ==
    JDict([tools |-> JList(<<
        JDict([name |-> JStr("get_entity_news"),
               description |-> JStr("Get news articles for an entity"),
               inputSchema |-> JDict(
                   [type |-> JStr("object"),
                    properties |-> JDict([entity_name |-> JDict(
                        [type |-> JStr("string"),
                         description |->
                             JStr("Name of the entity to search for")])]),
                    required |-> JList(<<JStr("entity_name")>>)])])>>)])

\* http_server.py:478-482, an envelope with a result.
JsonRpcResult(result, request_id) ==
    Ok(JDict([jsonrpc |-> JStr("2.0"), result |-> result, id |-> request_id]))

\* http_server.py:465-473, an envelope with an error.
JsonRpcError(code, message, data, request_id) ==
    Ok(JDict([jsonrpc |-> JStr("2.0"),
              error |-> JDict([code |-> JInt(code), message |-> JStr(message),
                               data |-> data]),
              id |-> request_id]))

\* What a handler did with a request: what it gave, and whether it asked
\* the news providers.
Handled(response, fetched) == [response |-> response, fetched |-> fetched]

\* Variant of McpMethodIsList: only tools/list asks for the list of tools.
McpMethodIsListOnly(method) == method = JStr("tools/list")

\* http_server.py:476, the methods that ask for the list of tools.
McpMethodIsList(method) ==
    method \in {JStr("tools/list"), JStr("tools/list_tools")}

\* http_server.py:501-525, the envelope for what the fetch gave.
McpCallResult(result, request_id) ==
    IF result.exc # "" /\ ExceptException(result.exc)
    THEN Handled(JsonRpcError(-32000, "Server error", JStr(result.exc),
                              request_id), TRUE)
    ELSE Handled(JsonRpcResult(
                     JDict([content |-> JList(<<
                         JDict([type |-> JStr("text"),
                                text |-> Dumps(result.value)])>>)]),
                     request_id), TRUE)

\* http_server.py:565-574, except Exception of mcp_jsonrpc: body is not
\* bound when request.json() raised.
McpExcept(body, tried) ==
    IF tried.response.exc = "" \/ ~ExceptException(tried.response.exc)
    THEN tried
    ELSE IF body.t = "not_json"
    THEN Handled(Raise("UnboundLocalError"), FALSE)
    ELSE Handled(JsonRpcError(-32603, "Internal error",
                              JStr(tried.response.exc),
                              DictGet(IF body.t = "dict" THEN body
                                      ELSE JDict(EmptyDict),
                                      "id", JNull).value),
                 tried.fetched)

\* http_server.py:432-574, mcp_jsonrpc handling a POST with this body.
McpJsonRpc(body, newsapi, gnews) ==
    LET jsonrpc == DictGet(body, "jsonrpc", JStr("2.0")).value
        method == DictGet(body, "method", JNull).value
        params == DictGet(body, "params", JDict(EmptyDict)).value
        request_id == DictGet(body, "id", JNull).value
        tool_name == DictGet(params, "name", JNull)
        arguments == DictGet(params, "arguments", JDict(EmptyDict))
        entity_name == DictGet(arguments.value, "entity_name", JNull)
    IN McpExcept(body,
            IF body.t = "not_json"
            THEN Handled(Raise("JSONDecodeError"), FALSE)
            ELSE IF body.t # "dict"
            THEN Handled(Raise("AttributeError"), FALSE)
            ELSE IF jsonrpc # JStr("2.0")
            THEN Handled(JsonRpcError(-32600, "Invalid Request",
                                      JStr("jsonrpc must be '2.0'"),
                                      request_id), FALSE)
            ELSE IF McpMethodIsList(method)
            THEN Handled(JsonRpcResult(McpToolList, request_id), FALSE)
            ELSE IF method = JStr("tools/call")
            THEN IF tool_name.exc # "" THEN Handled(tool_name, FALSE)
                 ELSE IF arguments.exc # "" THEN Handled(arguments, FALSE)
                 ELSE IF tool_name.value = JStr("get_entity_news")
                 THEN IF entity_name.exc # ""
                      THEN Handled(entity_name, FALSE)
                      ELSE IF Falsy(entity_name.value)
                      THEN Handled(JsonRpcError(
                                       -32602, "Invalid params",
                                       JStr("entity_name is required"),
                                       request_id), FALSE)
                      ELSE McpCallResult(
                               GetEntityNewsAsync(entity_name.value, newsapi,
                                                  gnews),
                               request_id)
                 ELSE Handled(JsonRpcError(
                                  -32601, "Method not found",
                                  FString(<<JStr("Tool "), tool_name.value,
                                            JStr(" not found")>>),
                                  request_id), FALSE)
            ELSE IF method = JStr("initialize")
            THEN Handled(JsonRpcResult(
                             JDict([protocolVersion |-> JStr("2024-11-05"),
                                    capabilities |->
                                        JDict([tools |-> JDict(EmptyDict)]),
                                    serverInfo |-> JDict(
                                        [name |->
                                             JStr("Entity News MCP Server"),
                                         version |-> JStr("0.1.0")])]),
                             request_id), FALSE)
            ELSE Handled(JsonRpcError(
                             -32601, "Method not found",
                             FString(<<JStr("Unknown method: "), method>>),
                             request_id), FALSE))

\* raise HTTPException(status_code=..., detail=...).
HTTPException(status_code, detail) ==
    [exc |-> "HTTPException", value |-> JNull, status_code |-> status_code,
     detail |-> detail]

\* str(e): for an HTTPException "<status_code>: <detail>", else the text of
\* the exception.
StrOfException(e) ==
    IF e.exc = "HTTPException"
    THEN FString(<<JInt(e.status_code), JStr(": "), e.detail>>)
    ELSE JStr(e.exc)

\* http_server.py:425-426, except Exception of mcp_tool_call: HTTPException
\* is an Exception.
McpToolCallExcept(tried) ==
    IF tried.response.exc # "" /\ ExceptException(tried.response.exc)
    THEN Handled(HTTPException(500, StrOfException(tried.response)),
                 tried.fetched)
    ELSE tried

\* http_server.py:413-422, the body for what the fetch gave.
McpToolCallResult(result) ==
    IF result.exc # "" THEN Handled(result, TRUE)
    ELSE Handled(Ok(JDict([content |-> JList(<<
                     JDict([type |-> JStr("text"),
                            text |-> Dumps(result.value)])>>)])), TRUE)

\* http_server.py:398-426, mcp_tool_call: the body it returns or the
\* exception it raises, for a request that is a JSON object.
McpToolCall(request, newsapi, gnews) ==
    LET tool_name == DictGet(request, "name", JNull).value
        arguments == DictGet(request, "arguments", JDict(EmptyDict)).value
        entity_name == DictGet(arguments, "entity_name", JNull)
    IN McpToolCallExcept(
           IF tool_name = JStr("get_entity_news")
           THEN IF entity_name.exc # "" THEN Handled(entity_name, FALSE)
                ELSE IF Falsy(entity_name.value)
                THEN Handled(HTTPException(
                                 400, JStr("entity_name is required")),
                             FALSE)
                ELSE McpToolCallResult(
                         GetEntityNewsAsync(entity_name.value, newsapi,
                                            gnews))
           ELSE Handled(HTTPException(
                            404, FString(<<JStr("Tool "), tool_name,
                                           JStr(" not found")>>)),
                        FALSE))

\* What requests.get gives (utils.py:31, 80) when the provider does what it
\* did for httpx: requests has its own exceptions, and no bound on both
\* fetches together, so an answer that comes late is an answer.
RequestsOutcome(provider) ==
    IF provider.exc = "ConnectError" THEN TransportError("ConnectionError")
    ELSE IF provider.exc = "ReadTimeout" THEN TransportError("Timeout")
    ELSE Response(provider.status_code, provider.body)

\* http_server.py:78, list1 + list2.
ListsJoined(list1, list2) ==
    IF list1.exc # "" THEN list1
    ELSE IF list2.exc # "" THEN list2
    ELSE IF list1.value.t # "list" \/ list2.value.t # "list"
    THEN Raise("TypeError")
    ELSE Ok(JList(list1.value.v \o list2.value.v))

\* http_server.py:64-78, _get_entity_news: the two fetchers of utils.py one
\* after the other.
ServerGetEntityNews(entity_name, newsapi, gnews) ==
    ListsJoined(GetEntityNewsFromApi(entity_name, RequestsOutcome(newsapi)),
                GetEntityNewsFromGnews(entity_name, RequestsOutcome(gnews)))

\* http_server.py:694-704, except Exception of the POST branch of mcp_sse.
SseExcept(tried) ==
    IF tried.response.exc = "" \/ ~ExceptException(tried.response.exc)
    THEN tried
    ELSE Handled(JsonRpcError(-32603, "Internal error",
                              JStr(tried.response.exc), JNull),
                 tried.fetched)

\* http_server.py:594-704, mcp_sse handling a POST with this body.
McpSsePost(body, newsapi, gnews) ==
    LET method == DictGet(body, "method", JNull).value
        params == DictGet(body, "params", JDict(EmptyDict)).value
        request_id == DictGet(body, "id", JNull).value
        tool_name == DictGet(params, "name", JNull)
        arguments == DictGet(params, "arguments", JDict(EmptyDict))
        entity_name == DictGet(arguments.value, "entity_name", JNull)
    IN SseExcept(
            IF body.t = "not_json"
            THEN Handled(Raise("JSONDecodeError"), FALSE)
            ELSE IF body.t # "dict"
            THEN Handled(Raise("AttributeError"), FALSE)
            ELSE IF McpMethodIsList(method)
            THEN Handled(JsonRpcResult(McpToolList, request_id), FALSE)
            ELSE IF method = JStr("tools/call")
            THEN IF tool_name.exc # "" THEN Handled(tool_name, FALSE)
                 ELSE IF arguments.exc # "" THEN Handled(arguments, FALSE)
                 ELSE IF tool_name.value = JStr("get_entity_news")
                 THEN IF entity_name.exc # ""
                      THEN Handled(entity_name, FALSE)
                      ELSE IF Falsy(entity_name.value)
                      THEN Handled(JsonRpcError(
                                       -32602, "Invalid params",
                                       JStr("entity_name is required"),
                                       request_id), FALSE)
                      ELSE McpCallResult(
                               ServerGetEntityNews(entity_name.value,
                                                   newsapi, gnews),
                               request_id)
                 ELSE Handled(JsonRpcError(
                                  -32601, "Method not found",
                                  FString(<<JStr("Tool "), tool_name.value,
                                            JStr(" not found")>>),
                                  request_id), FALSE)
            ELSE IF method = JStr("initialize")
            THEN Handled(JsonRpcResult(
                             JDict([protocolVersion |-> JStr("2024-11-05"),
                                    capabilities |->
                                        JDict([tools |-> JDict(EmptyDict)]),
                                    serverInfo |-> JDict(
                                        [name |->
                                             JStr("Entity News MCP Server"),
                                         version |-> JStr("0.1.0")])]),
                             request_id), FALSE)
            ELSE Handled(JsonRpcError(
                             -32601, "Method not found",
                             FString(<<JStr("Unknown method: "), method>>),
                             request_id), FALSE))

\* One request, what the providers did while it was handled (nothing when
\* they were not asked) and what the handler gave.
Exchange(endpoint, request, providers, response) ==
    [endpoint |-> endpoint, request |-> request, providers |-> providers,
     response |-> response]

\* No request is being handled.
NoExchange == Exchange("", JNull, <<>>, Ok(JNull))

\* The result of a fetch that has not ended.
NotDone == Ok(JNull)

\* One call of _get_entity_news_async (http_server.py:81-201): where it is,
\* what the two providers do, the fetches that have ended in the order they
\* ended, what each gave, and what the call returns.
Fetch(at, providers, done, results, result) ==
    [pc |-> at, providers |-> providers, done |-> done, results |-> results,
     result |-> result]

NoFetch == Fetch("idle", <<>>, <<>>, <<>>, NotDone)

\* Variant of GatheredFetches: the results in the order the fetches ended.
GatheredAsCompleted(results, done) ==
    [k \in 1..Len(done) |-> results[done[k]]]

\* http_server.py:173-178, asyncio.gather: the results in the order of the
\* awaitables, whatever the order in which they ended.
GatheredFetches(results, done) == results

\* One event stream of GET /sse (http_server.py:707-719): where the
\* generator is, what it has yielded, and whether the task that runs it has
\* been cancelled.
Stream(at, emitted, cancelled) ==
    [pc |-> at, emitted |-> emitted, cancelled |-> cancelled]

NoStream == Stream("idle", <<>>, FALSE)

\* --------------------------------------------------------------- actions
NoMemo == [enrichment |-> <<>>, aggregation |-> <<>>, sentiment |-> <<>>]

InitRun ==
    /\ pc = "start"
    /\ company_name \in Companies
    /\ enrichment_data = NoData
    /\ news_data = NoData
    /\ batch_tasks = <<>>
    /\ batch_status = <<>>
    /\ batch_output = <<>>
    /\ i = 0
    /\ completion_order = <<>>
    /\ all_sentiment_entities_dict = <<>>
    /\ completed_batches = {}
    /\ sentiment_data = NoData
    /\ files = {}
    /\ abort_cause = ""
    /\ launch_order = <<>>
    /\ history = <<"start">>
    /\ enrichment_output = NoData
    /\ memo = NoMemo
    /\ previous_output = NoData
    /\ previous_completion = <<>>
    /\ log = <<>>
    /\ tool_call_counter = 0
    /\ tool_invocations = 0
    /\ tool_call = NoToolCall
    /\ http_exchange = NoExchange
    /\ news_fetch = NoFetch
    /\ sse_stream = NoStream

\* One run against an agent runtime that answers as it pleases.
Init ==
    /\ InitRun
    /\ deterministic = FALSE
    /\ runs_left = 0

\* Two runs on the same company against a deterministic stub.
InitRerun ==
    /\ InitRun
    /\ deterministic = TRUE
    /\ runs_left = 1

Goto(next) ==
    /\ pc' = next
    /\ history' = Append(history, next)

Abort(cause) ==
    /\ Goto("aborted")
    /\ abort_cause' = cause

\* main.py:54-85, up to the await of the enrichment invocation.
StartPipeline ==
    /\ pc = "start"
    /\ Goto("enrichment")
    /\ UNCHANGED <<company_name, enrichment_data, news_data, batch_tasks,
                   batch_status, batch_output, i, completion_order,
                   all_sentiment_entities_dict, completed_batches,
                   sentiment_data, files, abort_cause, launch_order,
                   enrichment_output>>
    /\ UNCHANGED stub_vars
    /\ tool_call_counter' = ResetToolCallCounter
    /\ tool_invocations' = 0
    /\ UNCHANGED <<log, tool_call, http_exchange, news_fetch, sse_stream>>

\* main.py:85-135, the enrichment invocation returns: append the self
\* entity, write the step-1 snapshot (not guarded), invoke aggregation.
EnrichmentReturn ==
    /\ pc = "enrichment"
    /\ \E output \in Answers(memo.enrichment, company_name,
                             EnrichmentOutputs(company_name,
                                 IF deterministic THEN MaxEnrichedRerun
                                 ELSE MaxEnriched)),
          write_ok \in BOOLEAN :
        /\ enrichment_output' = output
        /\ memo' = [memo EXCEPT !.enrichment =
                        Remember(memo.enrichment, company_name, output)]
        /\ enrichment_data' =
               Envelope(output.company_name,
                        AppendSelf(output.entities, company_name))
        /\ IF write_ok
           THEN /\ files' = files \cup {"step1"}
                /\ Goto("aggregation")
                /\ UNCHANGED abort_cause
           ELSE /\ Abort("step1_write")
                /\ UNCHANGED files
    /\ UNCHANGED <<company_name, news_data, batch_tasks, batch_status,
                   batch_output, i, completion_order,
                   all_sentiment_entities_dict, completed_batches,
                   sentiment_data, launch_order>>
    /\ UNCHANGED <<deterministic, runs_left, previous_output,
                   previous_completion>>
    /\ UNCHANGED <<log, tool_vars>>

\* main.py:85, the enrichment invocation raises (the runtime's validation
\* error included): nothing catches it.
EnrichmentRaise ==
    /\ pc = "enrichment"
    /\ ~(deterministic /\ company_name \in DOMAIN memo.enrichment)
    /\ Abort("enrichment")
    /\ UNCHANGED <<company_name, enrichment_data, news_data, batch_tasks,
                   batch_status, batch_output, i, completion_order,
                   all_sentiment_entities_dict, completed_batches,
                   sentiment_data, files, launch_order, enrichment_output>>
    /\ UNCHANGED stub_vars
    /\ UNCHANGED <<log, tool_vars>>

\* Variant of step2_file: the name of the step-1 file, copied.
step2_file_copied == "step1"

\* main.py:147, the file the step-2 snapshot is written to.
step2_file == "step2"

\* main.py:135-263, the aggregation invocation returns: write the step-2
\* snapshot (guarded), make the batch coroutines, enter the chunk loop.
AggregationReturn ==
    /\ pc = "aggregation"
    /\ \E output \in Answers(memo.aggregation, enrichment_data,
                             AggregationOutputs(enrichment_data)),
          write_ok \in BOOLEAN :
        /\ news_data' = output
        /\ memo' = [memo EXCEPT !.aggregation =
                        Remember(memo.aggregation, enrichment_data, output)]
        /\ files' = IF write_ok THEN files \cup {step2_file} ELSE files
        /\ log' = log \o AggregationDiagnostics(
                              enrichment_data.entities, output.entities,
                              write_ok, GetToolCallCount(tool_call_counter))
        /\ batch_tasks' = BatchTasks(output.entities)
        /\ batch_status' =
               [b \in 1..Len(BatchTasks(output.entities)) |-> "queued"]
        /\ batch_output' =
               [b \in 1..Len(BatchTasks(output.entities)) |-> Pending]
    /\ i' = 0
    /\ completion_order' = <<>>
    /\ all_sentiment_entities_dict' = <<>>
    /\ completed_batches' = {}
    /\ Goto("sentiment")
    /\ UNCHANGED <<company_name, enrichment_data, sentiment_data,
                   abort_cause, launch_order, enrichment_output>>
    /\ UNCHANGED <<deterministic, runs_left, previous_output,
                   previous_completion>>
    /\ UNCHANGED tool_vars

\* Variant of AggregationRaise: the failed invocation is tried again from
\* the enrichment stage.
AggregationRaiseRetries ==
    /\ pc = "aggregation"
    /\ Goto("enrichment")
    /\ UNCHANGED <<company_name, enrichment_data, news_data, batch_tasks,
                   batch_status, batch_output, i, completion_order,
                   all_sentiment_entities_dict, completed_batches,
                   sentiment_data, files, abort_cause, launch_order,
                   enrichment_output>>
    /\ UNCHANGED stub_vars
    /\ UNCHANGED <<log, tool_vars>>

\* Variant of AggregationRaise: the step-2 file is opened before the
\* invocation, so the failed stage leaves a file behind.
AggregationRaiseAfterOpen ==
    /\ pc = "aggregation"
    /\ Abort("aggregation")
    /\ files' = files \cup {"step2"}
    /\ UNCHANGED <<company_name, enrichment_data, news_data, batch_tasks,
                   batch_status, batch_output, i, completion_order,
                   all_sentiment_entities_dict, completed_batches,
                   sentiment_data, launch_order, enrichment_output>>
    /\ UNCHANGED stub_vars
    /\ UNCHANGED <<log, tool_vars>>

\* main.py:135, the aggregation invocation raises: nothing catches it.
AggregationRaise ==
    /\ pc = "aggregation"
    /\ ~(deterministic /\ enrichment_data \in DOMAIN memo.aggregation)
    /\ Abort("aggregation")
    /\ UNCHANGED <<company_name, enrichment_data, news_data, batch_tasks,
                   batch_status, batch_output, i, completion_order,
                   all_sentiment_entities_dict, completed_batches,
                   sentiment_data, files, launch_order, enrichment_output>>
    /\ UNCHANGED stub_vars
    /\ UNCHANGED <<log, tool_vars>>

InFlight == {b \in DOMAIN batch_status : batch_status[b] = "running"}

\* main.py:268 and 209-221: gather schedules the coroutines of the chunk,
\* which start in the order given and run up to their await of runner.run.
StartBatch ==
    /\ pc = "sentiment"
    /\ \E b \in ChunkSet(i, Len(batch_tasks)) :
        /\ batch_status[b] = "queued"
        /\ \A a \in ChunkSet(i, Len(batch_tasks)) :
               a < b => batch_status[a] # "queued"
        /\ batch_status' = [batch_status EXCEPT ![b] = "running"]
        /\ launch_order' = Append(launch_order, b)
    /\ UNCHANGED <<pc, history, company_name, enrichment_data, news_data,
                   batch_tasks, batch_output, i, completion_order,
                   all_sentiment_entities_dict, completed_batches,
                   sentiment_data, files, abort_cause, enrichment_output>>
    /\ UNCHANGED stub_vars
    /\ UNCHANGED <<log, tool_vars>>

\* main.py:215-218.
BatchInput(b) == Envelope(news_data.company_name, batch_tasks[b].batch_entities)

\* main.py:221-239, the sentiment invocation of a batch returns.
BatchReturn ==
    /\ pc = "sentiment"
    /\ \E b \in InFlight :
        \E output \in Answers(memo.sentiment, BatchInput(b),
                              SentimentOutputs(BatchInput(b))) :
            /\ output.outcome = "returned"
            /\ batch_output' = [batch_output EXCEPT ![b] = output]
            /\ batch_status' = [batch_status EXCEPT ![b] = "done"]
            /\ completion_order' = Append(completion_order, b)
            /\ memo' = [memo EXCEPT !.sentiment =
                            Remember(memo.sentiment, BatchInput(b), output)]
    /\ UNCHANGED <<pc, history, company_name, enrichment_data, news_data,
                   batch_tasks, i, all_sentiment_entities_dict,
                   completed_batches, sentiment_data, files, abort_cause,
                   launch_order, enrichment_output>>
    /\ UNCHANGED <<deterministic, runs_left, previous_output,
                   previous_completion>>
    /\ UNCHANGED <<log, tool_vars>>

\* Variant of BatchRaise: the exception of a batch is not caught and ends
\* the run.
BatchRaiseAborts ==
    /\ pc = "sentiment"
    /\ InFlight # {}
    /\ Abort("batch")
    /\ UNCHANGED <<company_name, enrichment_data, news_data, batch_tasks,
                   batch_status, batch_output, i, completion_order,
                   all_sentiment_entities_dict, completed_batches,
                   sentiment_data, files, launch_order, enrichment_output>>
    /\ UNCHANGED stub_vars
    /\ UNCHANGED <<log, tool_vars>>

\* main.py:221 and 241-245, the sentiment invocation of a batch raises.
BatchRaise ==
    /\ pc = "sentiment"
    /\ \E b \in InFlight :
        /\ Raised \in Answers(memo.sentiment, BatchInput(b), {Raised})
        /\ batch_output' = [batch_output EXCEPT ![b] = Raised]
        /\ batch_status' = [batch_status EXCEPT ![b] = "done"]
        /\ completion_order' = Append(completion_order, b)
        /\ memo' = [memo EXCEPT !.sentiment =
                        Remember(memo.sentiment, BatchInput(b), Raised)]
    /\ UNCHANGED <<pc, history, company_name, enrichment_data, news_data,
                   batch_tasks, i, all_sentiment_entities_dict,
                   completed_batches, sentiment_data, files, abort_cause,
                   launch_order, enrichment_output>>
    /\ UNCHANGED <<deterministic, runs_left, previous_output,
                   previous_completion>>
    /\ UNCHANGED <<log, tool_vars>>

\* Variant of GatherReturn: the await of the chunk is bounded
\* (asyncio.wait_for); when the bound passes, the batches still in flight
\* are cancelled, count as failed, and the loop moves on.
GatherReturnOnTimeout ==
    /\ pc = "sentiment"
    /\ i < Len(batch_tasks)
    /\ \A b \in ChunkSet(i, Len(batch_tasks)) : batch_status[b] # "queued"
    /\ batch_status' =
           [b \in DOMAIN batch_status |->
               IF batch_status[b] = "running" THEN "done" ELSE batch_status[b]]
    /\ batch_output' =
           [b \in DOMAIN batch_output |->
               IF batch_status[b] = "running" THEN Raised ELSE batch_output[b]]
    /\ LET results == GatherResults(Chunk(i, Len(batch_tasks)), batch_output',
                                    completion_order)
       IN /\ all_sentiment_entities_dict' =
                 StoreResults(all_sentiment_entities_dict, results)
          /\ completed_batches' = completed_batches \cup CompletedIn(results)
    /\ i' = i + MAX_CONCURRENT_BATCHES
    /\ completion_order' =
           IF i + MAX_CONCURRENT_BATCHES < Len(batch_tasks)
           THEN <<>> ELSE completion_order
    /\ UNCHANGED <<pc, history, company_name, enrichment_data, news_data,
                   batch_tasks, sentiment_data, files, abort_cause,
                   launch_order, enrichment_output>>
    /\ UNCHANGED stub_vars
    /\ UNCHANGED <<log, tool_vars>>

\* Variant of GatherReturn: when a batch of the chunk has failed, the failed
\* batches are queued again and the chunk is gathered once more.
GatherReturnRequeues ==
    /\ pc = "sentiment"
    /\ i < Len(batch_tasks)
    /\ ChunkFinished(i, Len(batch_tasks), batch_status)
    /\ LET results == GatherResults(Chunk(i, Len(batch_tasks)), batch_output,
                                    completion_order)
           failed == {results[k].batch_num :
                         k \in {j \in 1..Len(results) :
                                    results[j].result.is_none}}
       IN /\ all_sentiment_entities_dict' =
                 StoreResults(all_sentiment_entities_dict, results)
          /\ completed_batches' = completed_batches \cup CompletedIn(results)
          /\ batch_status' =
                 [b \in DOMAIN batch_status |->
                     IF b \in failed THEN "queued" ELSE batch_status[b]]
          /\ batch_output' =
                 [b \in DOMAIN batch_output |->
                     IF b \in failed THEN Pending ELSE batch_output[b]]
          /\ i' = IF failed = {} THEN i + MAX_CONCURRENT_BATCHES ELSE i
    /\ completion_order' =
           IF i + MAX_CONCURRENT_BATCHES < Len(batch_tasks)
           THEN <<>> ELSE completion_order
    /\ UNCHANGED <<pc, history, company_name, enrichment_data, news_data,
                   batch_tasks, sentiment_data, files, abort_cause,
                   launch_order, enrichment_output>>
    /\ UNCHANGED stub_vars
    /\ UNCHANGED <<log, tool_vars>>

\* main.py:268-280, gather returns once every coroutine of the chunk has
\* ended; its results are stored and the loop moves to the next chunk.
GatherReturn ==
    /\ pc = "sentiment"
    /\ i < Len(batch_tasks)
    /\ ChunkFinished(i, Len(batch_tasks), batch_status)
    /\ LET results == GatherResults(Chunk(i, Len(batch_tasks)), batch_output,
                                    completion_order)
       IN /\ all_sentiment_entities_dict' =
                 StoreResults(all_sentiment_entities_dict, results)
          /\ completed_batches' = completed_batches \cup CompletedIn(results)
    /\ i' = i + MAX_CONCURRENT_BATCHES
    /\ completion_order' =
           IF i + MAX_CONCURRENT_BATCHES < Len(batch_tasks)
           THEN <<>> ELSE completion_order
    /\ UNCHANGED <<pc, history, company_name, enrichment_data, news_data,
                   batch_tasks, batch_status, batch_output, sentiment_data,
                   files, abort_cause, launch_order, enrichment_output>>
    /\ UNCHANGED stub_vars
    /\ UNCHANGED <<log, tool_vars>>

\* Variant of Merge: the aggregation entities that no batch returned are
\* removed from the aggregation output itself.
MergeInPlace ==
    /\ pc = "sentiment"
    /\ i >= Len(batch_tasks)
    /\ sentiment_data' =
           Envelope(news_data.company_name,
                    OrderedEntities(news_data.entities,
                                    all_sentiment_entities_dict))
    /\ news_data' =
           LET Stored(e) == e.entity_name \in DOMAIN all_sentiment_entities_dict
           IN Envelope(news_data.company_name,
                       SelectSeq(news_data.entities, Stored))
    /\ Goto("reconciliation")
    /\ UNCHANGED <<company_name, enrichment_data, batch_tasks,
                   batch_status, batch_output, i, completion_order,
                   all_sentiment_entities_dict, completed_batches, files,
                   abort_cause, launch_order, enrichment_output>>
    /\ UNCHANGED stub_vars
    /\ UNCHANGED <<log, tool_vars>>

\* main.py:263 and 282-291, the chunk loop ends: reorder the stored
\* entities by the aggregation order.
Merge ==
    /\ pc = "sentiment"
    /\ i >= Len(batch_tasks)
    /\ sentiment_data' =
           Envelope(news_data.company_name,
                    OrderedEntities(news_data.entities,
                                    all_sentiment_entities_dict))
    /\ Goto("reconciliation")
    /\ UNCHANGED <<company_name, enrichment_data, news_data, batch_tasks,
                   batch_status, batch_output, i, completion_order,
                   all_sentiment_entities_dict, completed_batches, files,
                   abort_cause, launch_order, enrichment_output>>
    /\ UNCHANGED stub_vars
    /\ UNCHANGED <<log, tool_vars>>

\* main.py:296-344, what the step-3 validation logs.
ValidationDiagnostics ==
    EntityValidation(news_data.entities, sentiment_data.entities)
    \o ArticleValidation(news_data.entities, sentiment_data.entities)

\* main.py:346-424, after the validation: the token count reads
\* article.sentiment_tokens (not guarded), the step-3 snapshot is written
\* (not guarded), the summary is logged and sentiment_data is returned.
FinishRun ==
    IF ReadsMissingAttribute(sentiment_data.entities)
    THEN /\ Abort("token_count")
         /\ log' = log \o ValidationDiagnostics
         /\ UNCHANGED files
    ELSE \E write_ok \in BOOLEAN :
        IF write_ok
        THEN /\ files' = files \cup {"step3"}
             /\ log' = log \o ValidationDiagnostics
                           \o SummaryDiagnostics(enrichment_data.entities,
                                                 news_data.entities,
                                                 sentiment_data.entities)
             /\ Goto("done")
             /\ UNCHANGED abort_cause
        ELSE /\ Abort("step3_write")
             /\ log' = log \o ValidationDiagnostics
             /\ UNCHANGED files

\* Variant of Reconcile: an entity count that differs between step 2 and
\* step 3 is raised as an error.
ReconcileRaisesOnMismatch ==
    /\ pc = "reconciliation"
    /\ IF Len(news_data.entities) # Len(sentiment_data.entities)
       THEN /\ Abort("validation")
            /\ log' = log \o ValidationDiagnostics
            /\ UNCHANGED files
       ELSE FinishRun
    /\ UNCHANGED <<company_name, enrichment_data, news_data, batch_tasks,
                   batch_status, batch_output, i, completion_order,
                   all_sentiment_entities_dict, completed_batches,
                   sentiment_data, launch_order, enrichment_output>>
    /\ UNCHANGED stub_vars
    /\ UNCHANGED tool_vars

\* main.py:293-424, validation, the step-3 snapshot, the summary, return.
Reconcile ==
    /\ pc = "reconciliation"
    /\ FinishRun
    /\ UNCHANGED <<company_name, enrichment_data, news_data, batch_tasks,
                   batch_status, batch_output, i, completion_order,
                   all_sentiment_entities_dict, completed_batches,
                   sentiment_data, launch_order, enrichment_output>>
    /\ UNCHANGED stub_vars
    /\ UNCHANGED tool_vars

\* main.py:475, the pipeline is run again on the same company.
Rerun ==
    /\ pc = "done"
    /\ runs_left > 0
    /\ runs_left' = runs_left - 1
    /\ previous_output' = sentiment_data
    /\ previous_completion' = completion_order
    /\ pc' = "start"
    /\ history' = <<"start">>
    /\ enrichment_data' = NoData
    /\ news_data' = NoData
    /\ batch_tasks' = <<>>
    /\ batch_status' = <<>>
    /\ batch_output' = <<>>
    /\ i' = 0
    /\ completion_order' = <<>>
    /\ all_sentiment_entities_dict' = <<>>
    /\ completed_batches' = {}
    /\ sentiment_data' = NoData
    /\ files' = {}
    /\ abort_cause' = ""
    /\ launch_order' = <<>>
    /\ enrichment_output' = NoData
    /\ UNCHANGED <<company_name, deterministic, memo>>
    /\ log' = <<>>
    /\ UNCHANGED tool_vars

Next ==
    \/ StartPipeline
    \/ EnrichmentReturn
    \/ EnrichmentRaise
    \/ AggregationReturn
    \/ AggregationRaise
    \/ StartBatch
    \/ BatchReturn
    \/ BatchRaise
    \/ GatherReturn
    \/ Merge
    \/ Reconcile

Spec == Init /\ [][Next]_vars

NextRerun == Next \/ Rerun

SpecRerun == InitRerun /\ [][NextRerun]_vars

\* The enrichment invocation returns an answer of MaxEnrichedFair entities
\* (the aggregation agent still keeps any prefix of it).
EnrichmentReturnFull ==
    /\ EnrichmentReturn
    /\ Len(enrichment_output'.entities) = MaxEnrichedFair

\* main.py:54-424, the steps the event loop takes on its own: a coroutine
\* that can go on is run.
OrchestratorStep ==
    \/ StartPipeline
    \/ StartBatch
    \/ GatherReturn
    \/ Merge
    \/ Reconcile

\* main.py:85, 135 and 221: an awaited runner.run returns or raises.
InvocationEnds ==
    \/ EnrichmentReturnFull
    \/ EnrichmentRaise
    \/ AggregationReturn
    \/ AggregationRaise
    \/ BatchReturn
    \/ BatchRaise

NextFair == OrchestratorStep \/ InvocationEnds

\* One run in which the event loop runs whatever can go on and every agent
\* invocation that is awaited ends, by returning or by raising.
SpecFair ==
    /\ Init
    /\ [][NextFair]_vars
    /\ WF_vars(OrchestratorStep)
    /\ WF_vars(InvocationEnds)

\* ------------------------------------------------------ the tools, called
\* Largest number of get_entity_news calls made after a reset.
MaxToolCalls == 3

\* The variables of the pipeline run, which a tool call leaves alone.
run_vars == <<pc, company_name, enrichment_data, news_data, batch_tasks,
              batch_status, batch_output, i, completion_order,
              all_sentiment_entities_dict, completed_batches, sentiment_data,
              files, abort_cause, launch_order, history, enrichment_output,
              log>>

ToolCall(tool, argument, provider, result) ==
    [tool |-> tool, argument |-> argument, provider |-> provider,
     result |-> result]

\* main.py:65, reset_tool_call_counter() at the start of a run.
ResetCounter ==
    /\ tool_call_counter' = ResetToolCallCounter
    /\ tool_invocations' = 0
    /\ UNCHANGED <<tool_call, http_exchange, news_fetch, sse_stream,
                   run_vars, stub_vars>>

\* tools.py:12-65, the agent runtime calls get_entity_news: nothing in the
\* function touches the counter.
CallGetEntityNews ==
    /\ tool_invocations < MaxToolCalls
    /\ \E entity_name \in ToolEntityNames, provider \in NewsProviderOutcomes :
        tool_call' = ToolCall("get_entity_news", entity_name, provider,
                              GetEntityNews(entity_name, provider))
    /\ tool_invocations' = tool_invocations + 1
    /\ UNCHANGED <<tool_call_counter, http_exchange, news_fetch, sse_stream,
                   run_vars, stub_vars>>

\* utils.py:4-54, get_entity_news_from_api is called.
CallGetEntityNewsFromApi ==
    /\ \E entity_name \in ToolEntityNames, provider \in NewsProviderOutcomes :
        tool_call' = ToolCall("get_entity_news_from_api", entity_name,
                              provider,
                              GetEntityNewsFromApi(entity_name, provider))
    /\ UNCHANGED <<tool_call_counter, tool_invocations, http_exchange,
                   news_fetch, sse_stream,
                   run_vars, stub_vars>>

\* utils.py:58-89, get_entity_news_from_gnews is called.
CallGetEntityNewsFromGnews ==
    /\ \E entity_name \in ToolEntityNames, provider \in NewsProviderOutcomes :
        tool_call' = ToolCall("get_entity_news_from_gnews", entity_name,
                              provider,
                              GetEntityNewsFromGnews(entity_name, provider))
    /\ UNCHANGED <<tool_call_counter, tool_invocations, http_exchange,
                   news_fetch, sse_stream,
                   run_vars, stub_vars>>

\* tools.py:68-128, the agent runtime calls fetch_article_content.
CallFetchArticleContent ==
    /\ \E url \in ToolUrls, provider \in PageProviderOutcomes :
        tool_call' = ToolCall("fetch_article_content", url, provider,
                              FetchArticleContent(url, provider))
    /\ UNCHANGED <<tool_call_counter, tool_invocations, http_exchange,
                   news_fetch, sse_stream,
                   run_vars, stub_vars>>

NextTools ==
    \/ ResetCounter
    \/ CallGetEntityNews
    \/ CallGetEntityNewsFromApi
    \/ CallGetEntityNewsFromGnews
    \/ CallFetchArticleContent

\* The tools called in any order, with any answer of their providers.
SpecTools == Init /\ [][NextTools]_vars

\* ------------------------------------------------------ the HTTP server
\* http_server.py:246-248, the bodies that are a ToolRequest.
ToolRequests == {JObject([entity_name |-> JStr(n)]) : n \in ToolEntityNames}

\* http_server.py:353-372, POST /tools/get_entity_news is handled.
PostToolsGetEntityNews ==
    /\ http_exchange = NoExchange
    /\ \E request \in ToolRequests, newsapi \in ServerProviderOutcomes,
          gnews \in ServerProviderOutcomes :
        http_exchange' =
            Exchange("POST /tools/get_entity_news", request,
                     <<newsapi, gnews>>,
                     GetEntityNewsTool(request, newsapi, gnews))
    /\ UNCHANGED <<tool_call_counter, tool_invocations, tool_call, run_vars,
                   stub_vars, news_fetch, sse_stream>>

\* The params of the bodies sent to POST /mcp.
McpParams ==
    {Absent, JNull}
    \cup {JObject([name |-> name, arguments |-> arguments]) :
             name \in {Absent, JStr("get_entity_news"), JStr("get_stock")},
             arguments \in {Absent, JNull, JDict(EmptyDict),
                            JObject([entity_name |-> JStr("")]),
                            JObject([entity_name |-> JStr("Apple")])}}

\* The bodies sent to POST /mcp: JSON objects, JSON that is no object, and
\* text that is no JSON.
McpBodies ==
    {NotJson, JList(<<>>)}
    \cup {JObject([jsonrpc |-> jsonrpc, method |-> method,
                    params |-> params, id |-> id]) :
             jsonrpc \in {Absent, JStr("2.0"), JStr("1.0")},
             method \in {Absent, JStr("initialize"), JStr("tools/list"),
                         JStr("tools/list_tools"), JStr("tools/call"),
                         JStr("resources/list")},
             params \in McpParams,
             id \in {Absent, JInt(1)}}

\* The outcomes of a provider while a body is handled: whether the
\* providers are asked depends on the body only, and one that is not asked
\* does nothing.
McpAsked(body) ==
    IF McpJsonRpc(body, Unasked, Unasked).fetched THEN ServerProviderOutcomes
    ELSE {Unasked}

ExchangeOf(endpoint, body, newsapi, gnews, handled) ==
    Exchange(endpoint, body,
             IF handled.fetched THEN <<newsapi, gnews>> ELSE <<>>,
             handled.response)

McpExchange(body, newsapi, gnews) ==
    ExchangeOf("POST /mcp", body, newsapi, gnews,
               McpJsonRpc(body, newsapi, gnews))

\* http_server.py:432-574, POST /mcp is handled.
PostMcp ==
    /\ http_exchange = NoExchange
    /\ \E body \in McpBodies :
        \E newsapi \in McpAsked(body), gnews \in McpAsked(body) :
            http_exchange' = McpExchange(body, newsapi, gnews)
    /\ UNCHANGED <<tool_call_counter, tool_invocations, tool_call, run_vars,
                   stub_vars, news_fetch, sse_stream>>

\* The outcomes of a provider while a body is handled by POST /sse.
SseAsked(body) ==
    IF McpSsePost(body, Unasked, Unasked).fetched THEN ServerProviderOutcomes
    ELSE {Unasked}

SseExchange(body, newsapi, gnews) ==
    ExchangeOf("POST /sse", body, newsapi, gnews,
               McpSsePost(body, newsapi, gnews))

\* http_server.py:594-704, POST /sse is handled.
PostSse ==
    /\ http_exchange = NoExchange
    /\ \E body \in McpBodies :
        \E newsapi \in SseAsked(body), gnews \in SseAsked(body) :
            http_exchange' = SseExchange(body, newsapi, gnews)
    /\ UNCHANGED <<tool_call_counter, tool_invocations, tool_call, run_vars,
                   stub_vars, news_fetch, sse_stream>>

\* http_server.py:399, request: Dict[str, Any]: the bodies that reach
\* mcp_tool_call are JSON objects.
ToolCallRequests == {params \in McpParams : params.t = "dict"}

ToolCallAsked(request) ==
    IF McpToolCall(request, Unasked, Unasked).fetched
    THEN ServerProviderOutcomes
    ELSE {Unasked}

ToolCallExchange(request, newsapi, gnews) ==
    ExchangeOf("POST /mcp/tools/call", request, newsapi, gnews,
               McpToolCall(request, newsapi, gnews))

\* http_server.py:398-426, POST /mcp/tools/call is handled.
PostMcpToolsCall ==
    /\ http_exchange = NoExchange
    /\ \E request \in ToolCallRequests :
        \E newsapi \in ToolCallAsked(request),
           gnews \in ToolCallAsked(request) :
            http_exchange' = ToolCallExchange(request, newsapi, gnews)
    /\ UNCHANGED <<tool_call_counter, tool_invocations, tool_call, run_vars,
                   stub_vars, news_fetch, sse_stream>>

\* The response has been sent; the handlers keep nothing of a request.
SendResponse ==
    /\ http_exchange # NoExchange
    /\ http_exchange' = NoExchange
    /\ UNCHANGED <<tool_call_counter, tool_invocations, tool_call, run_vars,
                   stub_vars, news_fetch, sse_stream>>

NextServer ==
    \/ PostToolsGetEntityNews
    \/ PostMcp
    \/ PostSse
    \/ PostMcpToolsCall
    \/ SendResponse

\* The HTTP server answering one request after the other, with any answer
\* of the two news providers.
SpecServer == Init /\ [][NextServer]_vars

\* The entity the news is fetched for.
FetchedEntity == "Apple"

\* http_server.py:81-84 and 173-178: the call starts and both fetches are
\* handed to gather.
StartNewsFetch ==
    /\ news_fetch.pc = "idle"
    /\ \E newsapi \in ServerProviderOutcomes, gnews \in ServerProviderOutcomes :
        news_fetch' = Fetch("gathering", <<newsapi, gnews>>, <<>>,
                            <<NotDone, NotDone>>, NotDone)
    /\ UNCHANGED <<tool_call_counter, tool_invocations, tool_call,
                   http_exchange, sse_stream, run_vars, stub_vars>>

\* A fetch can end now: it is running and its provider is not late.
FetchCanEnd(k) ==
    /\ news_fetch.pc = "gathering"
    /\ \A j \in 1..Len(news_fetch.done) : news_fetch.done[j] # k
    /\ ~news_fetch.providers[k].late

\* The call once the fetch k has ended with the result given.
FetchEnded(k, result) ==
    [news_fetch EXCEPT !.done = Append(@, k), !.results[k] = result]

\* http_server.py:86-129: fetch_newsapi ends.
NewsapiFetchEnds ==
    /\ FetchCanEnd(1)
    /\ news_fetch' =
           FetchEnded(1, FetchNewsapi(FetchedEntity, news_fetch.providers[1]))
    /\ UNCHANGED <<tool_call_counter, tool_invocations, tool_call,
                   http_exchange, sse_stream, run_vars, stub_vars>>

\* http_server.py:131-169: fetch_gnews ends.
GnewsFetchEnds ==
    /\ FetchCanEnd(2)
    /\ news_fetch' =
           FetchEnded(2, FetchGnews(FetchedEntity, news_fetch.providers[2]))
    /\ UNCHANGED <<tool_call_counter, tool_invocations, tool_call,
                   http_exchange, sse_stream, run_vars, stub_vars>>

\* http_server.py:186-201: list1 + list2, a result that is an exception
\* counting as the empty list.
ListsOfGather(gathered) ==
    Ok(JList(ListOrEmpty(gathered[1]) \o ListOrEmpty(gathered[2])))

\* http_server.py:173-201: both fetches have ended, gather gives their
\* results and the call returns list1 + list2.
GatherEnds ==
    /\ news_fetch.pc = "gathering"
    /\ Len(news_fetch.done) = 2
    /\ news_fetch' =
           [news_fetch EXCEPT
               !.pc = "returned",
               !.result = ListsOfGather(GatheredFetches(news_fetch.results,
                                                        news_fetch.done))]
    /\ UNCHANGED <<tool_call_counter, tool_invocations, tool_call,
                   http_exchange, sse_stream, run_vars, stub_vars>>

\* http_server.py:179-184: 60 s pass with a fetch that has not ended (every
\* fetch that is not late has ended by then); wait_for cancels gather and
\* the call returns the empty list.
WaitForTimesOut ==
    /\ news_fetch.pc = "gathering"
    /\ \E k \in 1..2 : news_fetch.providers[k].late
    /\ ~FetchCanEnd(1)
    /\ ~FetchCanEnd(2)
    /\ news_fetch' = [news_fetch EXCEPT !.pc = "returned",
                                        !.result = Ok(JList(<<>>))]
    /\ UNCHANGED <<tool_call_counter, tool_invocations, tool_call,
                   http_exchange, sse_stream, run_vars, stub_vars>>

\* The caller has the result; the next call can start.
NewsFetchReturns ==
    /\ news_fetch.pc = "returned"
    /\ news_fetch' = NoFetch
    /\ UNCHANGED <<tool_call_counter, tool_invocations, tool_call,
                   http_exchange, sse_stream, run_vars, stub_vars>>

NextFetch ==
    \/ StartNewsFetch
    \/ NewsapiFetchEnds
    \/ GnewsFetchEnds
    \/ GatherEnds
    \/ WaitForTimesOut
    \/ NewsFetchReturns

\* One call of _get_entity_news_async after the other, the two fetches of
\* a call ending in either order.
SpecFetch == Init /\ [][NextFetch]_vars

\* The keep-alive comments of one stream the model follows.
MaxKeepalives == 40

\* http_server.py:709, 713, 716: what event_stream yields.
SseConnected ==
    "data: {\"type\": \"connection\", \"status\": \"connected\"}\n\n"

SseKeepalive == ": keepalive\n\n"

SseDisconnected ==
    "data: {\"type\": \"connection\", \"status\": \"disconnected\"}\n\n"

\* Variant of CancelledAsleep: the except is inside the loop, the stream
\* goes on after the 'disconnected' event.
CancelledKeepsStreaming(stream) ==
    Stream("yielded_keepalive", Append(stream.emitted, SseDisconnected), TRUE)

\* http_server.py:714-716: CancelledError is raised by the sleep and caught
\* outside the loop; the generator yields the 'disconnected' event.
CancelledAsleep(stream) ==
    Stream("yielded_disconnected", Append(stream.emitted, SseDisconnected),
           TRUE)

\* http_server.py:707-729: GET /sse makes the generator and hands it to
\* StreamingResponse; nothing of it has run.
GetSse ==
    /\ sse_stream.pc = "idle"
    /\ sse_stream' = Stream("created", <<>>, FALSE)
    /\ UNCHANGED <<tool_call_counter, tool_invocations, tool_call,
                   http_exchange, news_fetch, run_vars, stub_vars>>

\* http_server.py:709: the response asks for the first chunk and the
\* generator yields the 'connected' event.
SseYieldsConnected ==
    /\ sse_stream.pc = "created"
    /\ sse_stream' = Stream("yielded_connected", <<SseConnected>>, FALSE)
    /\ UNCHANGED <<tool_call_counter, tool_invocations, tool_call,
                   http_exchange, news_fetch, run_vars, stub_vars>>

\* http_server.py:710-712: the response asks for the next chunk; the
\* generator goes on from its yield to await asyncio.sleep(30).
SseSleeps ==
    /\ sse_stream.pc \in {"yielded_connected", "yielded_keepalive"}
    /\ sse_stream' = [sse_stream EXCEPT !.pc = "sleeping"]
    /\ UNCHANGED <<tool_call_counter, tool_invocations, tool_call,
                   http_exchange, news_fetch, run_vars, stub_vars>>

\* http_server.py:712-713: the sleep ends and the generator yields a
\* keep-alive comment.
SseYieldsKeepalive ==
    /\ sse_stream.pc = "sleeping"
    /\ Len(sse_stream.emitted) <= MaxKeepalives
    /\ sse_stream' = [sse_stream EXCEPT
                         !.pc = "yielded_keepalive",
                         !.emitted = Append(@, SseKeepalive)]
    /\ UNCHANGED <<tool_call_counter, tool_invocations, tool_call,
                   http_exchange, news_fetch, run_vars, stub_vars>>

\* http_server.py:712-716: the task is cancelled while the generator
\* sleeps.
SseCancelledAsleep ==
    /\ sse_stream.pc = "sleeping"
    /\ sse_stream' = CancelledAsleep(sse_stream)
    /\ UNCHANGED <<tool_call_counter, tool_invocations, tool_call,
                   http_exchange, news_fetch, run_vars, stub_vars>>

\* The task is cancelled while the generator is not running: before its
\* first chunk is asked for, or while it is suspended at the yield of line
\* 709 or 713. No CancelledError is raised inside the generator; it is
\* closed where it is and yields nothing more.
SseCancelledSuspended ==
    /\ sse_stream.pc \in {"created", "yielded_connected", "yielded_keepalive"}
    /\ sse_stream' = [sse_stream EXCEPT !.pc = "ended", !.cancelled = TRUE]
    /\ UNCHANGED <<tool_call_counter, tool_invocations, tool_call,
                   http_exchange, news_fetch, run_vars, stub_vars>>

\* http_server.py:716-719: after the yield of the 'disconnected' event the
\* generator, gone on or closed, ends.
SseEnds ==
    /\ sse_stream.pc = "yielded_disconnected"
    /\ sse_stream' = [sse_stream EXCEPT !.pc = "ended"]
    /\ UNCHANGED <<tool_call_counter, tool_invocations, tool_call,
                   http_exchange, news_fetch, run_vars, stub_vars>>

\* The connection is gone; the next GET /sse makes a new generator.
SseGone ==
    /\ sse_stream.pc = "ended"
    /\ sse_stream' = NoStream
    /\ UNCHANGED <<tool_call_counter, tool_invocations, tool_call,
                   http_exchange, news_fetch, run_vars, stub_vars>>

NextStream ==
    \/ GetSse
    \/ SseYieldsConnected
    \/ SseSleeps
    \/ SseYieldsKeepalive
    \/ SseCancelledAsleep
    \/ SseCancelledSuspended
    \/ SseEnds
    \/ SseGone

\* One event stream of GET /sse after the other, cancelled at any point.
SpecStream == Init /\ [][NextStream]_vars

\* ---------------------------------------------------------------- claims
K == Len(news_data.entities)

M == Len(batch_tasks)

AggregationReturned == news_data # NoData

Merged == pc \in {"reconciliation", "done"} \/ abort_cause = "step3_write"

StageRank(stage) ==
    CASE stage = "start" -> 0
      [] stage = "enrichment" -> 1
      [] stage = "aggregation" -> 2
      [] stage = "sentiment" -> 3
      [] stage = "reconciliation" -> 4
      [] stage = "done" -> 5
      [] OTHER -> 6

\* C1: the stages of a run happen in the order Enrichment, Aggregation,
\* SentimentBatching, Reconciliation, Done, one after the other and never
\* back (a run that raises leaves the order at that point); aggregation is
\* invoked only once the enrichment invocation has returned, and a batch is
\* invoked only once the aggregation invocation has returned.
C1_StagesInOrder ==
    /\ \A k \in 1..(Len(history) - 1) :
           \/ history[k + 1] = "aborted" /\ history[k] # "aborted"
           \/ StageRank(history[k + 1]) = StageRank(history[k]) + 1
    /\ history[Len(history)] = pc
    /\ pc \in {"start", "enrichment"} =>
           /\ enrichment_output = NoData
           /\ ~AggregationReturned
           /\ launch_order = <<>>
    /\ pc = "aggregation" =>
           /\ enrichment_output # NoData
           /\ ~AggregationReturned
           /\ launch_order = <<>>
    /\ launch_order # <<>> =>
           /\ enrichment_output # NoData
           /\ AggregationReturned
           /\ StageRank(pc) >= 3
    /\ InFlight # {} => pc = "sentiment"

C1_Witness == pc = "done" /\ Len(launch_order) >= 4

\* C2: at every moment at most MAX_CONCURRENT_BATCHES (3) batch invocations
\* have started and not yet ended.
C2_ConcurrencyBound == Cardinality(InFlight) <= 3

C2_Witness ==
    /\ Cardinality(InFlight) = 3
    /\ \E b \in DOMAIN batch_status : batch_status[b] = "queued"

Group(b) == (b - 1) \div 3

\* C3: batches are launched in partition order, the batches in flight are
\* those of one group 3g+1 .. min(3g+3, M), and no batch of a group starts
\* before every batch of the groups before it has ended, by returning or by
\* raising.
C3_GroupsInOrder ==
    /\ \A k \in 1..Len(launch_order) : launch_order[k] = k
    /\ \A a \in DOMAIN batch_status, b \in DOMAIN batch_status :
           (Group(a) < Group(b) /\ batch_status[b] # "queued") =>
               batch_status[a] = "done"
    /\ pc = "sentiment" =>
           /\ i % 3 = 0
           /\ \A b \in DOMAIN batch_status :
                  batch_status[b] = "running" =>
                      (i + 1 <= b /\ b <= Min(i + 3, M))

C3_Witness ==
    /\ M >= 4
    /\ batch_status[4] = "running"
    /\ batch_output[2].outcome = "raised"
    /\ batch_output[1].outcome = "returned"

\* ceil(k / b), without the code's arithmetic.
CeilDiv(k, b) == CHOOSE m \in 0..k : m * b >= k /\ (m = 0 \/ (m - 1) * b < k)

RECURSIVE Concat(_)
Concat(seqs) == IF seqs = <<>> THEN <<>> ELSE Head(seqs) \o Concat(Tail(seqs))

\* C4: K aggregation entities give ceil(K/2) batches (none for K = 0), which
\* are consecutive slices of the aggregation list, numbered from 1, each of
\* 1 to 2 entities and only the last possibly of 1; every position of the
\* list is in exactly one batch.
C4_Batching ==
    AggregationReturned =>
        /\ M = CeilDiv(K, 2)
        /\ \A b \in 1..M :
               /\ batch_tasks[b].batch_num = b
               /\ Len(batch_tasks[b].batch_entities) \in 1..2
               /\ b < M => Len(batch_tasks[b].batch_entities) = 2
               /\ batch_tasks[b].batch_entities =
                      SubSeq(news_data.entities, batch_tasks[b].batch_start + 1,
                             batch_tasks[b].batch_end)
        /\ Concat([b \in 1..M |-> batch_tasks[b].batch_entities]) =
               news_data.entities
        /\ \A p \in 1..K :
               Cardinality({b \in 1..M : /\ batch_tasks[b].batch_start < p
                                         /\ p <= batch_tasks[b].batch_end}) = 1

C4_Witness == AggregationReturned /\ K = 7 /\ M = 4

\* The names the batches that process_batch counted as completed returned.
SuccessfulNames ==
    UNION {Names(batch_output[b].entities) : b \in completed_batches}

Restricted(entities, names) ==
    LET Kept(e) == e.entity_name \in names
    IN SelectSeq(entities, Kept)

\* C5: the final entity sequence is the aggregation sequence restricted to
\* the names a successful batch returned, in aggregation order, each record
\* being one a successful batch returned; an aggregation entity no
\* successful batch returned is left out.
C5_MergeReorder ==
    Merged =>
        /\ NameSeq(sentiment_data.entities) =
               NameSeq(Restricted(news_data.entities, SuccessfulNames))
        /\ \A k \in 1..Len(sentiment_data.entities) :
               \E b \in completed_batches :
                   \E j \in 1..Len(batch_output[b].entities) :
                       batch_output[b].entities[j] = sentiment_data.entities[k]
        /\ \A k \in 1..K :
               news_data.entities[k].entity_name \notin SuccessfulNames =>
                   news_data.entities[k].entity_name
                       \notin Names(sentiment_data.entities)

C5_Witness ==
    /\ pc = "done"
    /\ Len(sentiment_data.entities) >= 2
    /\ Names(news_data.entities) \ SuccessfulNames # {}
    /\ SuccessfulNames \ Names(news_data.entities) = {}
    /\ Cardinality(completed_batches) >= 2

RaisedBatches == {b \in 1..M : batch_output[b].outcome = "raised"}

\* The invocation of batch b returned a record for each entity of its input,
\* in the input's order.
ReturnsOwnEntities(b) ==
    /\ batch_output[b].outcome = "returned"
    /\ NameSeq(batch_output[b].entities) =
           NameSeq(batch_tasks[b].batch_entities)

DistinctNames(entities) == Cardinality(Names(entities)) = Len(entities)

\* C6: when exactly one of the M batch invocations raises and every other
\* one returns its entities (the aggregation names being distinct), the run
\* completes and the final output holds the entities of the other M-1
\* batches and leaves out only those of the batch that raised.
C6_AsClaimed ==
    (/\ pc = "done"
     /\ DistinctNames(news_data.entities)
     /\ Cardinality(RaisedBatches) = 1
     /\ \A b \in (1..M) \ RaisedBatches : ReturnsOwnEntities(b))
    => NameSeq(sentiment_data.entities) =
           NameSeq(Concat([b \in 1..M |->
                              IF b \in RaisedBatches THEN <<>>
                              ELSE batch_tasks[b].batch_entities]))

C7_NoBatchAborts ==
    /\ abort_cause \in {"", "enrichment", "aggregation", "step1_write",
                        "step3_write"}
    /\ (AggregationReturned /\ pc = "aborted") => abort_cause = "step3_write"
    /\ Merged =>
           /\ launch_order = [k \in 1..M |-> k]
           /\ \A b \in 1..M : batch_status[b] = "done"
           /\ sentiment_data.company_name = company_name
           /\ completed_batches = {} => sentiment_data.entities = <<>>

\* A step in which a batch fails leaves the run in the sentiment stage and
\* every other batch as it was.
C7_FailureStep ==
    (pc = "sentiment" /\ batch_output' # batch_output) =>
        /\ pc' = "sentiment"
        /\ abort_cause' = ""
        /\ \A b \in 1..M :
               batch_output'[b] = batch_output[b] =>
                   batch_status'[b] = batch_status[b]

\* C7: whichever batches fail (their invocation raises, or what it returns
\* cannot be processed), all of them included, every batch is still invoked
\* once, no batch failure ends the run or touches another batch, and the run
\* goes on to return its output, empty when every batch failed (after the
\* sentiment stage only a failure to write the step-3 snapshot ends a run).
C7_FailureIsolation == []C7_NoBatchAborts /\ [][C7_FailureStep]_vars

C7_Witness ==
    /\ pc = "done"
    /\ M >= 4
    /\ RaisedBatches = 1..M
    /\ sentiment_data = Envelope(company_name, <<>>)

\* C8: against a deterministic stub, the second run of the pipeline on the
\* same company returns the same entity sequence as the first, whatever the
\* order in which the batches of a group ended in either run.
C8_SameOrderOnRerun ==
    (pc = "done" /\ runs_left = 0) =>
        sentiment_data.entities = previous_output.entities

C8_Witness ==
    /\ pc = "done"
    /\ runs_left = 0
    /\ Len(completion_order) >= 2
    /\ completion_order # previous_completion
    /\ Len(sentiment_data.entities) >= 2
    /\ ~DistinctNames(sentiment_data.entities)

\* C9: when the enrichment agent's answer holds no entity named as the
\* company, the entity list given to aggregation is that answer, unchanged
\* and in order, followed by one entity named as the company of type "self"
\* and strength 1.0, which is in the list once.
C9_SelfAppendedOnce ==
    (enrichment_output # NoData
     /\ company_name \notin Names(enrichment_output.entities)) =>
        /\ enrichment_data.company_name = enrichment_output.company_name
        /\ enrichment_data.entities =
               enrichment_output.entities \o
                   <<[entity_name |-> company_name,
                      relationship_strength |-> 100,
                      relationship_type |-> "self"]>>
        /\ Cardinality({k \in 1..Len(enrichment_data.entities) :
               enrichment_data.entities[k].entity_name = company_name}) = 1
        /\ Cardinality({k \in 1..Len(enrichment_data.entities) :
               enrichment_data.entities[k].relationship_type = "self"}) = 1

C9_Witness ==
    /\ pc = "aggregation"
    /\ company_name \notin Names(enrichment_output.entities)
    /\ Len(enrichment_output.entities) >= 2

\* C10: when the enrichment or the aggregation invocation raises, the run
\* ends with that exception: no later stage is invoked and no snapshot is
\* written for the failed stage or a later one (none after an enrichment
\* failure, only step 1 after an aggregation failure).
C10_StageFailureAborts ==
    /\ abort_cause = "enrichment" =>
           /\ pc = "aborted"
           /\ history = <<"start", "enrichment", "aborted">>
           /\ files = {}
           /\ enrichment_output = NoData
           /\ ~AggregationReturned
           /\ launch_order = <<>>
           /\ sentiment_data = NoData
    /\ abort_cause = "aggregation" =>
           /\ pc = "aborted"
           /\ history = <<"start", "enrichment", "aggregation", "aborted">>
           /\ files = {"step1"}
           /\ ~AggregationReturned
           /\ launch_order = <<>>
           /\ sentiment_data = NoData
    /\ pc = "aborted" => ~ENABLED Next

C10_Witness == abort_cause = "aggregation" /\ files = {"step1"}

\* The positions of the log that hold a diagnostic of one kind.
Logged(event) == {k \in 1..Len(log) : log[k].event = event}

\* C11: once aggregation has returned, the missing-entity diagnostic is in
\* the log exactly when the names of the step-1 list (the self entity
\* included) that are not names of the aggregation output are not none, it
\* is there once and names exactly those; the run does not end for it, and
\* the batches are made of the entities aggregation returned, whatever they
\* are.
C11_MissingEntityDiagnostic ==
    AggregationReturned =>
        LET missing == {n \in Names(enrichment_data.entities) :
                            n \notin Names(news_data.entities)}
        IN /\ (Logged("missing_step2") # {}) <=> (missing # {})
           /\ Cardinality(Logged("missing_step2")) <= 1
           /\ \A k \in Logged("missing_step2") : log[k].names = missing
           /\ pc = "aborted" => abort_cause = "step3_write"
           /\ Concat([b \in 1..M |-> batch_tasks[b].batch_entities]) =
                  news_data.entities

C11_Witness ==
    /\ pc = "done"
    /\ NameSeq(enrichment_data.entities) = <<"TSMC", "Samsung", "Apple">>
    /\ NameSeq(news_data.entities) = <<"TSMC", "Apple">>
    /\ \E k \in Logged("missing_step2") : log[k].names = {"Samsung"}
    /\ launch_order = <<1>>

Occurrences(seq, x) == Cardinality({k \in 1..Len(seq) : seq[k] = x})

\* Once aggregation has returned, the run is in a later stage or was ended
\* by the step-3 snapshot write and by nothing else; each agent invocation
\* was made once; a finished run returns the merged output under the
\* company's name.
C12_NoMismatchAborts ==
    AggregationReturned =>
        /\ \/ pc \in {"sentiment", "reconciliation", "done"}
           \/ pc = "aborted" /\ abort_cause = "step3_write"
        /\ Occurrences(history, "enrichment") = 1
        /\ Occurrences(history, "aggregation") = 1
        /\ \A b \in 1..M : Occurrences(launch_order, b) <= 1
        /\ pc = "done" =>
               /\ sentiment_data.company_name = company_name
               /\ Names(sentiment_data.entities) =
                      Names(news_data.entities) \cap SuccessfulNames
               /\ "step3" \in files

\* A step taken once enrichment has returned never goes back to an agent
\* already invoked: the stage outputs bound so far stay as they are, the step
\* that binds the aggregation output enters the sentiment stage, and the
\* reconciliation step returns the output it was given unless the step-3
\* snapshot write fails.
C12_MismatchStep ==
    /\ enrichment_output # NoData =>
           /\ enrichment_output' = enrichment_output
           /\ enrichment_data' = enrichment_data
    /\ AggregationReturned => news_data' = news_data
    /\ (pc = "aggregation" /\ news_data' # news_data) => pc' = "sentiment"
    /\ pc = "reconciliation" =>
           \/ pc' = "done" /\ sentiment_data' = sentiment_data
           \/ pc' = "aborted" /\ abort_cause' = "step3_write"

\* C12: when the enrichment and the aggregation invocations succeed, no
\* mismatch of entities or counts between the stages (entities missing in
\* step 2 or step 3, entities without news, article counts that differ, fewer
\* tool calls than entities) makes the run raise, end early or invoke an
\* agent again: every such run goes on to return the sentiment output, and
\* only a failure to write the step-3 snapshot can end it.
C12_DiagnosticsOnly == []C12_NoMismatchAborts /\ [][C12_MismatchStep]_vars

C12_Witness ==
    /\ pc = "done"
    /\ Logged("missing_step2") # {}
    /\ Logged("tool_call_shortfall") # {}
    /\ Logged("no_news") # {}
    /\ Logged("step3_missing_entities") # {}
    /\ Logged("entity_articles_differ") # {}
    /\ Logged("entity_missing_from_step3") # {}
    /\ Logged("missing_step3") # {}
    /\ Logged("count_mismatch_step1_step2") # {}
    /\ Logged("count_mismatch_step2_step3") # {}
    /\ Len(sentiment_data.entities) >= 2

\* The step-3 validation has run.
Validated == pc = "done" \/ abort_cause = "step3_write"

\* C13: after the sentiment stage, some batches having failed, the names
\* the run reports as missing from step 3 are exactly the names of the
\* aggregation output that are not names of the final output (in the
\* validation, and again in the summary of a run that returns), and each
\* aggregation entity whose name is not in the final output, and no other,
\* is reported as missing with all its articles.
C13_Step3Missing ==
    Validated =>
        LET lost == {n \in Names(news_data.entities) :
                         n \notin Names(sentiment_data.entities)}
            AllMissing(name) ==
                {k \in Logged("entity_missing_from_step3") :
                     /\ log[k].names = {name}
                     /\ log[k].items =
                            <<[entity_name |-> name, all_missing |-> TRUE,
                               missing_count |-> 0]>>}
        IN /\ (Logged("step3_missing_entities") # {}) <=> (lost # {})
           /\ Cardinality(Logged("step3_missing_entities")) <= 1
           /\ \A k \in Logged("step3_missing_entities") : log[k].names = lost
           /\ pc = "done" =>
                  /\ (Logged("missing_step3") # {}) <=> (lost # {})
                  /\ \A k \in Logged("missing_step3") : log[k].names = lost
           /\ \A n \in Names(news_data.entities) :
                  Cardinality(AllMissing(n)) =
                      IF n \in lost
                      THEN Cardinality({k \in 1..K :
                               news_data.entities[k].entity_name = n})
                      ELSE 0
           /\ \A k \in Logged("entity_missing_from_step3") :
                  \E n \in lost : k \in AllMissing(n)

C13_Witness ==
    /\ pc = "done"
    /\ M >= 3
    /\ completed_batches # {}
    /\ RaisedBatches # {}
    /\ Cardinality(Names(news_data.entities)
                       \ Names(sentiment_data.entities)) >= 2
    /\ Len(sentiment_data.entities) >= 2
    /\ Cardinality(Logged("entity_missing_from_step3")) >= 2

\* C14: the final sentiment output never holds two entities of the same
\* entity_name, whatever the aggregation output and the batch results are.
C14_AsClaimed == Merged => DistinctNames(sentiment_data.entities)

\* A snapshot file is on disk only once its stage's output is bound; the
\* aggregation invocation and everything after it find the step-1 file on
\* disk, also when a later stage has failed; once aggregation has returned
\* the step-2 file is on disk unless its write failed, which is logged; the
\* step-3 file is that of a run that returns.
C20_SnapshotsWritten ==
    /\ "step1" \in files => enrichment_output # NoData
    /\ pc \in {"aggregation", "sentiment", "reconciliation", "done"} =>
           "step1" \in files
    /\ abort_cause \in {"aggregation", "step3_write"} => "step1" \in files
    /\ "step2" \in files => AggregationReturned
    /\ AggregationReturned =>
           ("step2" \in files) # (Logged("step2_save_failed") # {})
    /\ "step3" \in files => pc = "done" /\ sentiment_data # NoData

\* A step of the run removes no snapshot, writes the step-1 file as it goes
\* from enrichment to the aggregation invocation, the step-2 file as it goes
\* from aggregation to the sentiment stage, no batch being launched yet, and
\* the step-3 file as it returns.
C20_SnapshotStep ==
    /\ files \subseteq files'
    /\ ("step1" \in files' /\ "step1" \notin files) =>
           pc = "enrichment" /\ pc' = "aggregation"
    /\ ("step2" \in files' /\ "step2" \notin files) =>
           pc = "aggregation" /\ pc' = "sentiment" /\ launch_order' = <<>>
    /\ ("step3" \in files' /\ "step3" \notin files) =>
           pc = "reconciliation" /\ pc' = "done"

\* C20: the snapshot of a stage is written after the stage's output is
\* there and before the work of the next stage starts (step 1 before the
\* aggregation invocation begins, step 2 before any batch is launched), and
\* a snapshot once written stays, so a failure in a later stage leaves the
\* snapshots written before it on disk.  A step-2 write that fails is logged
\* and leaves no file; a step-1 write that fails ends the run.
C20_SnapshotsBeforeNextStage ==
    []C20_SnapshotsWritten /\ [][C20_SnapshotStep]_vars

C20_Witness ==
    /\ abort_cause = "step3_write"
    /\ files = {"step1", "step2"}
    /\ Len(launch_order) >= 4
    /\ RaisedBatches # {}

\* C15: the counter of get_entity_news calls is zero after the reset at the
\* start of a run and, whenever it is queried later, equals the number of
\* get_entity_news invocations made since that reset.
C15_AsClaimed == GetToolCallCount(tool_call_counter) = tool_invocations

\* The provider outcomes C16 lists as errors: a transport error, a status
\* that is not 200, a body that is no JSON, JSON without an articles array,
\* an article whose source is null.
C16_ProviderError(provider) ==
    \/ provider.exc # ""
    \/ provider.status_code # 200
    \/ provider.body.t # "dict"
    \/ "articles" \notin DOMAIN provider.body.v
    \/ provider.body.v.articles.t # "list"
    \/ \E k \in 1..Len(provider.body.v.articles.v) :
           LET article == provider.body.v.articles.v[k]
           IN "source" \in DOMAIN article.v /\ article.v.source.t = "null"

\* C16: get_entity_news never raises: whatever the entity name and the
\* provider's answer, it returns the JSON text of a list, which is the empty
\* list when the provider's answer is an error, and otherwise has one entry
\* for each article of the answer.
C16_GetEntityNewsNeverRaises ==
    tool_call.tool = "get_entity_news" =>
        /\ tool_call.result.exc = ""
        /\ tool_call.result.value.t = "json_text"
        /\ tool_call.result.value.v.t = "list"
        /\ IF C16_ProviderError(tool_call.provider)
           THEN tool_call.result.value.v.v = <<>>
           ELSE Len(tool_call.result.value.v.v) =
                    Len(tool_call.provider.body.v.articles.v)

C16_Witness ==
    /\ tool_call.tool = "get_entity_news"
    /\ tool_call.provider.exc = ""
    /\ tool_call.provider.status_code = 200
    /\ tool_call.provider.body.t = "dict"
    /\ "articles" \in DOMAIN tool_call.provider.body.v
    /\ tool_call.provider.body.v.articles.t = "list"
    /\ Len(tool_call.provider.body.v.articles.v) = 2
    /\ "source" \in DOMAIN tool_call.provider.body.v.articles.v[2].v
    /\ tool_call.provider.body.v.articles.v[2].v.source.t = "null"
    /\ tool_call.result.value.v.v = <<>>

\* C17: get_entity_news_from_api never raises: on a transport error, a
\* status that is not 200 or a malformed response it returns the empty list.
C17_AsClaimed ==
    tool_call.tool = "get_entity_news_from_api" =>
        /\ tool_call.result.exc = ""
        /\ tool_call.result.value.t = "list"

\* C18: get_entity_news_from_gnews never raises: when the request or the
\* decoding of the response fails, its error handler completes and the
\* function returns the empty list.
C18_AsClaimed ==
    tool_call.tool = "get_entity_news_from_gnews" =>
        /\ tool_call.result.exc = ""
        /\ (tool_call.provider.exc # ""
            \/ tool_call.provider.status_code # 200
            \/ tool_call.provider.body.t = "not_json") =>
               tool_call.result.value = JList(<<>>)

\* C19: fetch_article_content does not raise and returns a string that
\* starts with "Error fetching article: " whenever the request fails with a
\* transport error or an error status, and only then.
C19_FetchErrorAsText ==
    tool_call.tool = "fetch_article_content" =>
        /\ tool_call.result.exc = ""
        /\ tool_call.result.value.t = "text"
        /\ (tool_call.provider.exc # ""
            \/ tool_call.provider.status_code >= 400)
               <=> tool_call.result.value.prefix = "Error fetching article: "

C19_Witness ==
    /\ tool_call.tool = "fetch_article_content"
    /\ tool_call.provider.status_code = 500
    /\ tool_call.result.value.prefix = "Error fetching article: "
    /\ tool_call.result.value.rest = "HTTPError"

\* C23: when the enrichment agent's answer already holds an entity named as
\* the company, no self entity is appended: the entity list given to
\* aggregation is that answer unchanged and holds the company name once.
C23_AsClaimed ==
    (enrichment_output # NoData
     /\ company_name \in Names(enrichment_output.entities)) =>
        /\ enrichment_data.entities = enrichment_output.entities
        /\ Cardinality({k \in 1..Len(enrichment_data.entities) :
               enrichment_data.entities[k].entity_name = company_name}) = 1

\* C24, as claimed: a queued batch is launched as soon as a slot frees:
\* whenever batches are in flight but fewer than 3, and a batch is still
\* queued, the next batch can be launched at once, without waiting for the
\* batches in flight.
C24_AsClaimed ==
    (/\ pc = "sentiment"
     /\ InFlight # {}
     /\ Cardinality(InFlight) < 3
     /\ \E b \in 1..M : batch_status[b] = "queued")
    => ENABLED StartBatch

\* A step that launches a batch launches the next one in partition order,
\* when every batch of the groups before it has ended; the chunk loop moves
\* on only when every batch of its group has ended.
C24_LaunchStep ==
    /\ launch_order' # launch_order =>
           \E b \in 1..M :
               /\ launch_order' = Append(launch_order, b)
               /\ b = Len(launch_order) + 1
               /\ batch_status[b] = "queued"
               /\ \A a \in 1..M : Group(a) < Group(b) => batch_status[a] = "done"
               /\ InFlight \subseteq {a \in 1..M : Group(a) = Group(b)}
    /\ (pc = "sentiment" /\ i' # i) =>
           /\ InFlight = {}
           /\ \A a \in 1..Min(i + 3, M) : batch_status[a] = "done"

\* C24: a queued batch is launched only once the whole group before it has
\* ended: a slot that frees while another batch of the group is in flight is
\* not filled, and the batches of the next group are launched, in partition
\* order, after every batch of the current group has returned or raised.
C24_LaunchAfterGroup == [][C24_LaunchStep]_vars

C24_Witness ==
    /\ pc = "sentiment"
    /\ M >= 4
    /\ batch_status[1] = "done"
    /\ batch_status[2] = "running"
    /\ batch_status[3] = "done"
    /\ batch_status[4] = "queued"
    /\ ~ENABLED StartBatch

\* While the invocation of a batch has not ended, the run is in the chunk
\* loop at that batch's group, no batch of a later group has been launched,
\* nothing has been merged, written for step 3 or returned, and the run has
\* not raised.
C25_Stalled ==
    \A b \in InFlight :
        /\ pc = "sentiment"
        /\ abort_cause = ""
        /\ i = 3 * Group(b)
        /\ \A a \in 1..M : Group(a) > Group(b) => batch_status[a] = "queued"
        /\ completed_batches \subseteq 1..i
        /\ sentiment_data = NoData
        /\ "step3" \notin files
        /\ Logged("all_entities_processed") = {}
        /\ Logged("step3_missing_entities") = {}

\* A batch in flight leaves that state only by the end of its own invocation
\* (it returns or raises), in a step that leaves the chunk loop where it is:
\* the orchestrator neither cancels it nor gives up waiting for it.
C25_OnlyItsEndFrees ==
    \A b \in InFlight :
        batch_status'[b] # "running" =>
            /\ batch_status'[b] = "done"
            /\ batch_output'[b].outcome \in {"returned", "raised"}
            /\ completion_order' = Append(completion_order, b)
            /\ \A a \in (1..M) \ {b} :
                   /\ batch_status'[a] = batch_status[a]
                   /\ batch_output'[a] = batch_output[a]
            /\ pc' = "sentiment"
            /\ i' = i
            /\ launch_order' = launch_order

\* C25: for as long as one batch invocation of a group has not ended, no
\* batch of a later group is launched, the merge and the reconciliation are
\* not reached and the run does not return; the only step that ends the wait
\* is the end of that invocation itself (no cancellation, no timeout).
C25_HangStalls == []C25_Stalled /\ [][C25_OnlyItsEndFrees]_vars

C25_Witness ==
    /\ M >= 4
    /\ InFlight = {2}
    /\ batch_status[1] = "done"
    /\ batch_status[3] = "done"
    /\ batch_status[4] = "queued"
    /\ ~ENABLED GatherReturn
    /\ ~ENABLED StartBatch
    /\ ~ENABLED Merge

\* The run has ended: it raised the exception of the enrichment or of the
\* aggregation invocation, or the error of a snapshot write that is not
\* guarded (steps 1 and 3), or it returned after launching each of the
\* ceil(K/2) batches once.
C26_Ended ==
    \/ /\ pc = "aborted"
       /\ abort_cause \in {"enrichment", "aggregation", "step1_write"}
       /\ launch_order = <<>>
    \/ /\ pc = "aborted"
       /\ abort_cause = "step3_write"
       /\ launch_order = [k \in 1..CeilDiv(K, 2) |-> k]
    \/ /\ pc = "done"
       /\ launch_order = [k \in 1..CeilDiv(K, 2) |-> k]
       /\ \A b \in 1..M : batch_status[b] = "done"

\* A batch that has been launched is not queued again, and one that has
\* ended, failed or not, stays as it ended.
C26_NoReinvoke ==
    \A b \in 1..M :
        /\ batch_status[b] # "queued" => batch_status'[b] # "queued"
        /\ batch_status[b] = "done" =>
               /\ batch_status'[b] = "done"
               /\ batch_output'[b] = batch_output[b]

\* C26: when every agent invocation ends, every run ends, and stays ended:
\* it raises from stage 1 or 2, or it returns after launching each of the
\* ceil(K/2) batches exactly once, no failed batch being invoked again (a
\* snapshot write that raises, at step 1 or 3, ends a run as well).
C26_Terminates == <>[]C26_Ended /\ [][C26_NoReinvoke]_vars

C26_Witness ==
    /\ pc = "done"
    /\ M = 4
    /\ launch_order = <<1, 2, 3, 4>>
    /\ RaisedBatches = {2, 4}
    /\ completed_batches = {1, 3}

\* C27, as claimed: the results of a group are entered into the merge map
\* in the order in which its batches ended.
C27_EnteredAsCompleted ==
    (pc = "sentiment" /\ i' # i) =>
        all_sentiment_entities_dict' =
            StoreResults(all_sentiment_entities_dict,
                         GatherResultsAsCompleted(Chunk(i, M), batch_output,
                                                  completion_order))

C27_AsClaimed == [][C27_EnteredAsCompleted]_vars

MaxOf(S) == CHOOSE m \in S : \A x \in S : x <= m

\* The record batch b returned last under name n.
LastReturned(b, n) ==
    batch_output[b].entities[
        MaxOf({k \in 1..Len(batch_output[b].entities) :
                  batch_output[b].entities[k].entity_name = n})]

\* The batches of a set that process_batch passed on and that returned a
\* record under name n.
Returning(batches, n) ==
    {b \in batches : /\ ~ProcessBatch(batch_output[b]).is_none
                     /\ n \in Names(batch_output[b].entities)}

\* When a group has been gathered, the map holds under each name the group
\* returned the record of the highest-numbered batch that returned it, and
\* under every other name what it held.
C27_EnteredAsLaunched ==
    (pc = "sentiment" /\ i' # i) =>
        /\ DOMAIN all_sentiment_entities_dict' =
               DOMAIN all_sentiment_entities_dict
               \cup {n \in UNION {Names(batch_output[b].entities) :
                                     b \in ChunkSet(i, M)} :
                         Returning(ChunkSet(i, M), n) # {}}
        /\ \A n \in DOMAIN all_sentiment_entities_dict' :
               all_sentiment_entities_dict'[n] =
                   IF Returning(ChunkSet(i, M), n) = {}
                   THEN all_sentiment_entities_dict[n]
                   ELSE LastReturned(MaxOf(Returning(ChunkSet(i, M), n)), n)

\* C27: the results of a group are entered into the merge map once the
\* whole group has ended, in the order in which its batches were launched
\* (ascending batch number), whatever the order in which they ended.
C27_EnteredInLaunchOrder == [][C27_EnteredAsLaunched]_vars

C27_Witness ==
    /\ M = 2
    /\ i >= M
    /\ completion_order = <<2, 1>>
    /\ completed_batches = {1, 2}
    /\ company_name \in Names(batch_output[1].entities)
    /\ company_name \in Names(batch_output[2].entities)
    /\ LastReturned(1, company_name) # LastReturned(2, company_name)
    /\ all_sentiment_entities_dict[company_name] =
           LastReturned(2, company_name)

\* C28: every entity of the final output is, for its name, the record
\* returned by the highest-numbered successful batch that returned the name
\* (the last write in partition order), whatever the order in which the
\* batches ended.
C28_LastWriteWins ==
    Merged =>
        \A k \in 1..Len(sentiment_data.entities) :
            LET n == sentiment_data.entities[k].entity_name
            IN /\ Returning(1..M, n) # {}
               /\ sentiment_data.entities[k] =
                      LastReturned(MaxOf(Returning(1..M, n)), n)

C28_Witness ==
    /\ pc = "done"
    /\ M = 2
    /\ completion_order = <<2, 1>>
    /\ Returning(1..M, company_name) = {1, 2}
    /\ LastReturned(1, company_name).relationship_type = "partner"
    /\ LastReturned(2, company_name).relationship_type = "self"
    /\ \E k \in 1..Len(sentiment_data.entities) :
           sentiment_data.entities[k] = LastReturned(2, company_name)

\* C29: once its group has been gathered, a batch whose invocation returned
\* an output of the schema is a completed batch and every name it returned
\* is in the merge map, with or without articles; only a batch whose
\* invocation raised is a failed batch.
C29_AsClaimed ==
    \A b \in 1..M :
        b <= i =>
            /\ batch_output[b].outcome = "returned" <=> b \in completed_batches
            /\ batch_output[b].outcome = "returned" =>
                   Names(batch_output[b].entities)
                       \subseteq DOMAIN all_sentiment_entities_dict

\* C30, as claimed: every entity of the final output was returned by a
\* successful batch whose input holds an entity of that name.
C30_AsClaimed ==
    Merged =>
        \A k \in 1..Len(sentiment_data.entities) :
            \E b \in completed_batches :
                /\ sentiment_data.entities[k].entity_name
                       \in Names(batch_tasks[b].batch_entities)
                /\ \E j \in 1..Len(batch_output[b].entities) :
                       batch_output[b].entities[j] = sentiment_data.entities[k]

\* Every successful batch returned only names of its own input.
C30_OwnNamesOnly ==
    \A b \in completed_batches :
        Names(batch_output[b].entities)
            \subseteq Names(batch_tasks[b].batch_entities)

\* C30: the merge goes by name only. Every name of the aggregation list
\* that some successful batch returned is in the final output, whichever
\* batch's input holds it, with a record that batch returned; the entities
\* of the final output were all returned by a batch whose input holds their
\* name only when no successful batch returned a name of another input.
C30_MergedByName ==
    Merged =>
        /\ \A n \in Names(news_data.entities) :
               Returning(1..M, n) # {} =>
                   \E k \in 1..Len(sentiment_data.entities) :
                       /\ sentiment_data.entities[k].entity_name = n
                       /\ \E b \in Returning(1..M, n) :
                              sentiment_data.entities[k] = LastReturned(b, n)
        /\ \A k \in 1..Len(sentiment_data.entities) :
               /\ sentiment_data.entities[k].entity_name
                      \in Names(news_data.entities)
               /\ Returning(1..M, sentiment_data.entities[k].entity_name) # {}
        /\ C30_OwnNamesOnly => C30_AsClaimed

C30_Witness ==
    /\ pc = "done"
    /\ M = 2
    /\ batch_output[2].outcome = "raised"
    /\ company_name \in Names(batch_tasks[2].batch_entities)
    /\ company_name \notin Names(batch_tasks[1].batch_entities)
    /\ Len(sentiment_data.entities) = 1
    /\ sentiment_data.entities[1] = LastReturned(1, company_name)


\* A provider answered usably: in time, without a transport or status
\* error, with a JSON object (of status ok for NewsAPI) whose articles, when
\* it has any, are a list of articles the fetch can read.
C21_Answered(provider, name) ==
    /\ ~provider.late
    /\ provider.exc = ""
    /\ provider.status_code < 400
    /\ provider.body.t = "dict"
    /\ name = "newsapi" =>
           /\ "status" \in DOMAIN provider.body.v
           /\ provider.body.v.status = JStr("ok")
    /\ "articles" \in DOMAIN provider.body.v =>
           /\ provider.body.v.articles.t = "list"
           /\ name = "newsapi" =>
                  \A k \in 1..Len(provider.body.v.articles.v) :
                      LET article == provider.body.v.articles.v[k]
                      IN "source" \in DOMAIN article.v =>
                             article.v.source.t = "dict"

\* The articles of a provider: none when it failed.
C21_Articles(provider, name) ==
    IF C21_Answered(provider, name) /\ "articles" \in DOMAIN provider.body.v
    THEN provider.body.v.articles.v
    ELSE <<>>

C21_Field(article, key, default) ==
    IF key \in DOMAIN article.v THEN article.v[key] ELSE default

\* entry is the article of the provider, in the shape of the server.
C21_IsArticle(entry, article, name) ==
    LET source == C21_Field(article, "source", JStr(""))
    IN /\ entry.v.title = C21_Field(article, "title", JStr(""))
       /\ entry.v.url = C21_Field(article, "url", JStr(""))
       /\ entry.v.source = IF source.t = "dict"
                           THEN C21_Field(source, "name", JStr(""))
                           ELSE source
       /\ entry.v.description = C21_Field(article, "description", JNull)
       /\ entry.v.published_at = C21_Field(article, "publishedAt", JNull)
       /\ entry.v.image =
              C21_Field(article,
                        IF name = "newsapi" THEN "urlToImage" ELSE "image",
                        JNull)

\* data is the articles of NewsAPI followed by the articles of GNews.
C21_DataIs(data, first, second) ==
    /\ Len(data) = Len(first) + Len(second)
    /\ \A k \in 1..Len(first) : C21_IsArticle(data[k], first[k], "newsapi")
    /\ \A k \in 1..Len(second) :
           C21_IsArticle(data[Len(first) + k], second[k], "gnews")

C21_Case == http_exchange.endpoint = "POST /tools/get_entity_news"

\* C21 as it is stated: POST /tools/get_entity_news always answers with
\* success = true and data the NewsAPI articles followed by the GNews
\* articles, a provider that failed giving none.
C21_AsClaimed ==
    C21_Case =>
        /\ http_exchange.response.exc = ""
        /\ http_exchange.response.value.success
        /\ C21_DataIs(http_exchange.response.value.data,
                      C21_Articles(http_exchange.providers[1], "newsapi"),
                      C21_Articles(http_exchange.providers[2], "gnews"))

\* C21 (amended): POST /tools/get_entity_news never raises and always
\* answers with success = true and no error; data is the NewsAPI articles
\* followed by the GNews articles, a provider that failed giving none,
\* unless the two fetches are not both done within 60 s: then data is
\* empty whatever either provider answered.
C21_SuccessWithArticles ==
    C21_Case =>
        /\ http_exchange.response.exc = ""
        /\ http_exchange.response.value.success
        /\ http_exchange.response.value.error = JNull
        /\ IF \E k \in 1..2 : http_exchange.providers[k].late
           THEN http_exchange.response.value.data = <<>>
           ELSE C21_DataIs(
                    http_exchange.response.value.data,
                    C21_Articles(http_exchange.providers[1], "newsapi"),
                    C21_Articles(http_exchange.providers[2], "gnews"))

\* NewsAPI failed, GNews gave two articles, and they are the data.
C21_Witness ==
    /\ C21_Case
    /\ http_exchange.providers[1].exc = "ConnectError"
    /\ Len(C21_Articles(http_exchange.providers[2], "gnews")) = 2
    /\ Len(http_exchange.response.value.data) = 2
    /\ http_exchange.response.value.success


\* The field of a JSON object, null when it has none.
C22_Get(object, key) ==
    IF key \in DOMAIN object.v THEN object.v[key] ELSE JNull

C22_Method == C22_Get(http_exchange.request, "method")

\* The params of the request are a JSON object, or it has none.
C22_ParamsObject ==
    "params" \in DOMAIN http_exchange.request.v =>
        http_exchange.request.v.params.t = "dict"

C22_ToolName ==
    IF "params" \in DOMAIN http_exchange.request.v
    THEN C22_Get(http_exchange.request.v.params, "name")
    ELSE JNull

\* The arguments of the request are a JSON object with an entity_name that
\* is a string and not empty.
C22_NamesEntity ==
    /\ "params" \in DOMAIN http_exchange.request.v
    /\ "arguments" \in DOMAIN http_exchange.request.v.params.v
    /\ LET arguments == http_exchange.request.v.params.v.arguments
       IN /\ arguments.t = "dict"
          /\ "entity_name" \in DOMAIN arguments.v
          /\ arguments.v.entity_name.t = "str"
          /\ arguments.v.entity_name.v # ""

C22_IsResult ==
    /\ http_exchange.response.exc = ""
    /\ "result" \in DOMAIN http_exchange.response.value.v
    /\ "error" \notin DOMAIN http_exchange.response.value.v

C22_IsError(code) ==
    /\ http_exchange.response.exc = ""
    /\ "error" \in DOMAIN http_exchange.response.value.v
    /\ "result" \notin DOMAIN http_exchange.response.value.v
    /\ http_exchange.response.value.v.error.v.code = JInt(code)

\* The result has a content item of type text whose text is a JSON list.
C22_HasTextContent ==
    /\ C22_IsResult
    /\ LET result == http_exchange.response.value.v.result
       IN /\ DOMAIN result.v = {"content"}
          /\ result.v.content.t = "list"
          /\ \E k \in 1..Len(result.v.content.v) :
                 /\ result.v.content.v[k].v.type = JStr("text")
                 /\ result.v.content.v[k].v.text.t = "json_text"
                 /\ result.v.content.v[k].v.text.v.t = "list"

\* The answer by method, the methods in list_methods being those that ask
\* for the list of tools.
C22_Answer(list_methods) ==
    IF C22_Method = JStr("initialize")
    THEN /\ C22_IsResult
         /\ {"protocolVersion", "capabilities", "serverInfo"}
                \subseteq DOMAIN http_exchange.response.value.v.result.v
    ELSE IF C22_Method \in list_methods
    THEN /\ C22_IsResult
         /\ LET result == http_exchange.response.value.v.result
            IN /\ DOMAIN result.v = {"tools"}
               /\ Len(result.v.tools.v) = 1
               /\ result.v.tools.v[1].v.name = JStr("get_entity_news")
    ELSE IF C22_Method = JStr("tools/call")
    THEN C22_ParamsObject =>
             IF C22_ToolName = JStr("get_entity_news")
             THEN C22_NamesEntity =>
                      /\ C22_HasTextContent
                      /\ http_exchange.providers # <<>>
             ELSE C22_IsError(-32601)
    ELSE C22_IsError(-32601)

C22_Case ==
    /\ http_exchange.endpoint = "POST /mcp"
    /\ http_exchange.request.t = "dict"
    /\ "jsonrpc" \in DOMAIN http_exchange.request.v
    /\ http_exchange.request.v.jsonrpc = JStr("2.0")

\* C22 as it is stated: for a POST /mcp whose body is a JSON object with
\* jsonrpc = "2.0", initialize, tools/list and tools/call of
\* get_entity_news with an entity_name yield their results, and tools/call
\* with any other tool name, and any other method, yields error -32601.
C22_AsClaimed == C22_Case => C22_Answer({JStr("tools/list")})

\* C22 (amended): for a POST /mcp whose body is a JSON object with
\* jsonrpc = "2.0", initialize yields a result with protocolVersion,
\* capabilities and serverInfo; tools/list, and tools/list_tools as well,
\* yields a result listing exactly the tool get_entity_news; tools/call
\* with params that are an object yields, for the name get_entity_news and
\* an entity_name that is a string and not empty, a result with a text
\* content item, and for any other tool name error -32601; every other
\* method yields error -32601.
C22_Dispatch ==
    C22_Case => C22_Answer({JStr("tools/list"), JStr("tools/list_tools")})

\* A tools/call of get_entity_news for Apple is answered with a text
\* content item after both providers were asked.
C22_Witness ==
    /\ C22_Case
    /\ C22_Method = JStr("tools/call")
    /\ C22_ToolName = JStr("get_entity_news")
    /\ C22_NamesEntity
    /\ C22_HasTextContent
    /\ Len(http_exchange.providers) = 2


\* An aggregation entity that is not in the final output with the number of
\* articles it has in the aggregation output.
C31_Differs(k) ==
    LET found == FirstNamed(sentiment_data.entities,
                            news_data.entities[k].entity_name)
    IN \/ found = 0
       \/ Len(sentiment_data.entities[found].news)
              # Len(news_data.entities[k].news)

\* C31: the step-3 validation reports that all articles were processed only
\* if every aggregation entity is in the final output with as many articles
\* as in the aggregation output; when the article count of some entity
\* differs between the two stages, the article-mismatch warning is reported
\* instead.
C31_AsClaimed ==
    Validated =>
        /\ Logged("all_articles_processed") # {} =>
               \A k \in 1..K : ~C31_Differs(k)
        /\ (\E k \in 1..K : C31_Differs(k)) =>
               /\ Logged("articles_mismatch") # {}
               /\ Logged("all_articles_processed") = {}


\* C32: a failure while writing a snapshot file, of step 1, step 2 or
\* step 3, does not abort the pipeline: no run ends by a snapshot write that
\* raised.
C32_AsClaimed ==
    ~(pc = "aborted" /\ abort_cause \in {"step1_write", "step3_write"})


\* The records that the invocations of the batches returned.
C33_BatchRecords ==
    UNION {{batch_output[b].entities[k] :
                k \in 1..Len(batch_output[b].entities)} : b \in 1..M}

C33_Frame == AggregationReturned => news_data' = news_data

C33_FromBatches ==
    /\ pc = "sentiment" =>
           \A b \in 1..M :
               batch_tasks[b].batch_entities =
                   SubSeq(news_data.entities, batch_tasks[b].batch_start + 1,
                          batch_tasks[b].batch_end)
    /\ \A k \in 1..Len(sentiment_data.entities) :
           /\ sentiment_data.entities[k] \in C33_BatchRecords
           /\ \A j \in 1..K :
                  sentiment_data.entities[k] # news_data.entities[j]

\* C33: once aggregation has returned, no step changes the aggregation
\* output (its entity list, the order, the articles of each entity): the
\* batches are slices of it, and every entity of the final output is a
\* record that a batch invocation returned, none a record of the
\* aggregation output.
C33_AggregationUnchanged == []C33_FromBatches /\ [][C33_Frame]_vars

\* A run that returned an output of two entities or more after a batch was
\* lost, the aggregation output holding articles.
C33_Witness ==
    /\ pc = "done"
    /\ Len(sentiment_data.entities) >= 2
    /\ Names(news_data.entities) # Names(sentiment_data.entities)
    /\ SumArticles(news_data.entities) >= 2


C34_Case ==
    /\ http_exchange.endpoint = "POST /mcp"
    /\ http_exchange.request.t = "dict"

\* The response is a JSON-RPC envelope for the request: jsonrpc "2.0", one
\* of result and error, the id of the request.
C34_IsEnvelope ==
    /\ http_exchange.response.exc = ""
    /\ http_exchange.response.value.t = "dict"
    /\ DOMAIN http_exchange.response.value.v \in
           {{"jsonrpc", "result", "id"}, {"jsonrpc", "error", "id"}}
    /\ http_exchange.response.value.v.jsonrpc = JStr("2.0")
    /\ http_exchange.response.value.v.id = C22_Get(http_exchange.request, "id")

\* The request is for jsonrpc 2.0 (given or by default).
C34_Version2 ==
    "jsonrpc" \in DOMAIN http_exchange.request.v =>
        http_exchange.request.v.jsonrpc = JStr("2.0")

\* A tools/call of get_entity_news whose arguments (an object, or absent)
\* give no entity_name, or an empty one.
C34_NoEntityName ==
    /\ C22_Method = JStr("tools/call")
    /\ "params" \in DOMAIN http_exchange.request.v
    /\ http_exchange.request.v.params.t = "dict"
    /\ C22_ToolName = JStr("get_entity_news")
    /\ LET params == http_exchange.request.v.params
       IN \/ "arguments" \notin DOMAIN params.v
          \/ /\ params.v.arguments.t = "dict"
             /\ \/ C22_Get(params.v.arguments, "entity_name").t = "null"
                \/ C22_Get(params.v.arguments, "entity_name") = JStr("")

\* C34: every response of POST /mcp to a body that is a JSON object is a
\* JSON-RPC envelope with jsonrpc "2.0", exactly one of result and error,
\* and the id of the request (null when it has none); a jsonrpc field
\* other than "2.0" yields error -32600 whatever the method, and a
\* tools/call of get_entity_news with a missing or empty entity_name yields
\* error -32602 without the news providers being asked.
C34_EnvelopeAndErrors ==
    C34_Case =>
        /\ C34_IsEnvelope
        /\ ~C34_Version2 =>
               /\ C22_IsError(-32600)
               /\ http_exchange.providers = <<>>
        /\ (C34_Version2 /\ C34_NoEntityName) =>
               /\ C22_IsError(-32602)
               /\ http_exchange.providers = <<>>


\* A tools/call of get_entity_news with an empty entity_name and the id 1
\* was answered with error -32602 under that id.
C34_Witness ==
    /\ C34_Case
    /\ C34_Version2
    /\ C34_NoEntityName
    /\ "arguments" \in DOMAIN http_exchange.request.v.params.v
    /\ "entity_name" \in DOMAIN http_exchange.request.v.params.v.arguments.v
    /\ C22_IsError(-32602)
    /\ http_exchange.response.value.v.id = JInt(1)


\* C35: a failure while a POST /mcp is handled, a body that is no JSON or
\* no JSON object included, is answered with the error envelope of code
\* -32603, and no exception leaves the handler.
C35_AsClaimed ==
    http_exchange.endpoint = "POST /mcp" =>
        /\ http_exchange.response.exc = ""
        /\ http_exchange.request.t # "dict" => C22_IsError(-32603)


\* What POST /mcp gives for the request and the provider answers of the
\* exchange.
C36_McpResponse ==
    IF http_exchange.providers = <<>>
    THEN McpJsonRpc(http_exchange.request, Unasked, Unasked).response
    ELSE McpJsonRpc(http_exchange.request, http_exchange.providers[1],
                    http_exchange.providers[2]).response

\* C36: for every body that is a JSON object and the same answers of the
\* news providers, POST /sse returns the envelope that POST /mcp returns.
C36_AsClaimed ==
    (http_exchange.endpoint = "POST /sse" /\ http_exchange.request.t = "dict")
        => http_exchange.response = C36_McpResponse


\* The HTTP status of the response: that of the HTTPException raised, else
\* 200.
C37_Status ==
    IF http_exchange.response.exc = "HTTPException"
    THEN http_exchange.response.status_code
    ELSE IF http_exchange.response.exc = "" THEN 200
    ELSE 500

\* The arguments are a JSON object, or absent.
C37_ArgumentsObject ==
    "arguments" \in DOMAIN http_exchange.request.v =>
        http_exchange.request.v.arguments.t = "dict"

\* The arguments give no entity_name, or an empty one.
C37_NoEntityName ==
    /\ C37_ArgumentsObject
    /\ "arguments" \in DOMAIN http_exchange.request.v =>
           LET entity_name ==
                   C22_Get(http_exchange.request.v.arguments, "entity_name")
           IN entity_name.t = "null" \/ entity_name = JStr("")

\* C37: POST /mcp/tools/call answers with status 400 when the tool is
\* get_entity_news and entity_name is missing or empty, with status 404
\* when the tool name is another one, and with status 500 only for a
\* failure that is neither.
C37_AsClaimed ==
    http_exchange.endpoint = "POST /mcp/tools/call" =>
        LET name == C22_Get(http_exchange.request, "name")
        IN /\ (name = JStr("get_entity_news") /\ C37_NoEntityName)
                  => C37_Status = 400
           /\ name # JStr("get_entity_news") => C37_Status = 404
           /\ C37_Status = 500 =>
                  /\ name = JStr("get_entity_news")
                  /\ ~C37_ArgumentsObject

\* A fetch of the call has not ended as the 60 s pass.
C38_TimedOut == \E k \in 1..2 : news_fetch.providers[k].late

\* C38: _get_entity_news_async never raises and keeps the two providers
\* apart: neither fetch raises, and what the call returns is the NewsAPI
\* articles followed by the GNews articles in whichever order the two
\* fetches ended, a provider that failed giving none and leaving the
\* articles of the other in the result; when the two fetches are not both
\* done within 60 s the call returns the empty list. It is what
\* GetEntityNewsAsync gives in one step.
C38_ProvidersIsolated ==
    /\ news_fetch.pc \in {"gathering", "returned"} =>
           \A j \in 1..Len(news_fetch.done) :
               news_fetch.results[news_fetch.done[j]].exc = ""
    /\ news_fetch.pc = "returned" =>
           /\ news_fetch.result.exc = ""
           /\ news_fetch.result.value.t = "list"
           /\ IF C38_TimedOut
              THEN news_fetch.result.value.v = <<>>
              ELSE C21_DataIs(
                       news_fetch.result.value.v,
                       C21_Articles(news_fetch.providers[1], "newsapi"),
                       C21_Articles(news_fetch.providers[2], "gnews"))
           /\ news_fetch.result =
                  GetEntityNewsAsync(FetchedEntity, news_fetch.providers[1],
                                     news_fetch.providers[2])

\* The GNews fetch ended before the NewsAPI fetch, NewsAPI gave one article
\* and GNews two, and the call returned the three.
C38_Witness ==
    /\ news_fetch.pc = "returned"
    /\ news_fetch.done = <<2, 1>>
    /\ Len(C21_Articles(news_fetch.providers[1], "newsapi")) = 1
    /\ Len(C21_Articles(news_fetch.providers[2], "gnews")) = 2
    /\ Len(news_fetch.result.value.v) = 3

\* The events of the stream from the second on.
C39_Later == 2..Len(sse_stream.emitted)

\* What the stream has emitted stays emitted.
C39_Extends ==
    /\ Len(sse_stream'.emitted) >= Len(sse_stream.emitted)
    /\ SubSeq(sse_stream'.emitted, 1, Len(sse_stream.emitted))
           = sse_stream.emitted

\* The stream has emitted the 'disconnected' event.
C39_Disconnected ==
    \E k \in 1..Len(sse_stream.emitted) :
        sse_stream.emitted[k] = SseDisconnected

\* One step of a stream: the 'disconnected' event is emitted by the step
\* that cancels the stream and by no other, and nothing is emitted after
\* it.
C39_Step ==
    sse_stream'.pc # "idle" =>
        /\ C39_Extends
        /\ C39_Disconnected => sse_stream'.emitted = sse_stream.emitted
        /\ (sse_stream'.emitted # sse_stream.emitted
            /\ sse_stream'.emitted[Len(sse_stream'.emitted)] = SseDisconnected)
               => ~sse_stream.cancelled /\ sse_stream'.cancelled

\* C39: the GET /sse event stream emits the 'connected' event first and
\* only once, as the first thing it does when it runs; after it, while the
\* stream is not cancelled, only keep-alive comments; the 'disconnected'
\* event only on cancellation and as the last event, nothing being emitted
\* after it.
C39_StreamOrder ==
    /\ [](/\ sse_stream.pc \in {"yielded_connected", "sleeping",
                                "yielded_keepalive", "yielded_disconnected"}
              => sse_stream.emitted # <<>>
          /\ sse_stream.emitted # <<>>
              => sse_stream.emitted[1] = SseConnected
          /\ \A k \in C39_Later :
              /\ sse_stream.emitted[k] # SseConnected
              /\ \/ sse_stream.emitted[k] = SseKeepalive
                 \/ /\ sse_stream.emitted[k] = SseDisconnected
                    /\ k = Len(sse_stream.emitted)
                    /\ sse_stream.cancelled)
    /\ [][C39_Step]_vars

\* A stream that was cancelled asleep after two keep-alive comments and
\* has ended.
C39_Witness ==
    /\ sse_stream.pc = "ended"
    /\ sse_stream.emitted =
           <<SseConnected, SseKeepalive, SseKeepalive, SseDisconnected>>
====
